---- MODULE Spec2Model ----
(***************************************************************************)
(* Subscription Debt Manager: the subscription list kept by               *)
(* useSubscriptions (fed by the Firestore snapshot listener) and the       *)
(* aggregates that useAnalytics derives from it.                           *)
(*                                                                         *)
(* Representation.                                                         *)
(*  - A JavaScript Date is a record [valid, time]; valid = FALSE is the    *)
(*    "Invalid Date" (time value NaN), for which every comparison is       *)
(*    false.  time counts ticks since 1970-01-01T00:00Z, DayTicks ticks    *)
(*    per day, so 24*60*60*1000 ms is DayTicks ticks.  The environment's   *)
(*    time zone is UTC.                                                    *)
(*  - A stored nextRenewalDate string "YYYY-MM-DD" is a record [y, m, d];  *)
(*    a string that does not denote a calendar date (month 13) parses to   *)
(*    the Invalid Date.                                                    *)
(*  - cost is a whole number of cents (validateCost rounds to 2            *)
(*    decimals).  Every computed amount is a whole number of twelfths of   *)
(*    a cent, so that cost / 3 and cost / 12 are exact.                    *)
(***************************************************************************)
EXTENDS Integers, Sequences, FiniteSets, TLC

\* ------------------------------------------------------------------ bounds
MaxSubs == 2
MaxTicks == 1
DayTicks == 2
MaxLongList == 6
MaxLoginCalls == 7
MaxLoginSteps == 3

MaxUpdates == 12

MaxKeys == 3

MaxClockTicks == 8

\* the time between two events at the search field, in ms
TimeStep == 100

\* ------------------------------------------------------- calendar (Date)
InvalidDate == [valid |-> FALSE, time |-> 0]

DateAt(t) == [valid |-> TRUE, time |-> t]

IsLeapYear(y) == (y % 4 = 0 /\ y % 100 # 0) \/ y % 400 = 0

DaysInMonth(y, m) ==
  IF m = 2 THEN (IF IsLeapYear(y) THEN 29 ELSE 28)
  ELSE IF m \in {4, 6, 9, 11} THEN 30 ELSE 31

LeapDaysBefore(y) == ((y - 1) \div 4) - ((y - 1) \div 100) + ((y - 1) \div 400)

DaysBeforeYear(y) == 365 * (y - 1970) + LeapDaysBefore(y) - LeapDaysBefore(1970)

\* days of year y that precede month m (m in 1..12)
DaysBeforeMonth(y, m) ==
  <<0, 31, 59, 90, 120, 151, 181, 212, 243, 273, 304, 334>>[m]
    + (IF m > 2 /\ IsLeapYear(y) THEN 1 ELSE 0)

\* days from 1970-01-01 to y-m-d (m in 1..12)
DaysFromCivil(y, m, d) == DaysBeforeYear(y) + DaysBeforeMonth(y, m) + (d - 1)

\* new Date("YYYY-MM-DD"): UTC midnight of that day, or Invalid Date
ParseDate(s) ==
  IF s.m \in 1..12 /\ s.d \in 1..DaysInMonth(s.y, s.m)
  THEN DateAt(DayTicks * DaysFromCivil(s.y, s.m, s.d))
  ELSE InvalidDate

\* new Date(year, monthIndex, day): monthIndex is 0-based and overflows into
\* the following years, day 0 is the last day of the previous month
MakeDate(year, monthIndex, day) ==
  DateAt(DayTicks * (DaysFromCivil(year + (monthIndex \div 12),
                                   (monthIndex % 12) + 1, 1) + (day - 1)))

\* new Date(date.getTime() + days * 24 * 60 * 60 * 1000)
AddDays(date, days) ==
  IF date.valid THEN DateAt(date.time + days * DayTicks) ELSE InvalidDate

DayNumber(date) == date.time \div DayTicks

\* date.getFullYear() of a valid date
GetFullYear(date) ==
  LET n == DayNumber(date)
      y == 1970 + (n \div 365)
  IN  IF DaysBeforeYear(y) <= n THEN y ELSE y - 1

\* date.getMonth() of a valid date (0-based)
GetMonth(date) ==
  LET y == GetFullYear(date)
      r == DayNumber(date) - DaysBeforeYear(y)
  IN  (CHOOSE m \in 1..12 :
         DaysBeforeMonth(y, m) <= r /\ r < DaysBeforeMonth(y, m) + DaysInMonth(y, m)) - 1

\* date.getDate() of a valid date
GetDate(date) ==
  DayNumber(date) - DaysFromCivil(GetFullYear(date), GetMonth(date) + 1, 1) + 1

\* a <= b and a >= b on Dates: false as soon as one side is the Invalid Date
DateLe(a, b) == a.valid /\ b.valid /\ a.time <= b.time

DateGe(a, b) == a.valid /\ b.valid /\ a.time >= b.time

\* a < b and a > b on Dates
DateLt(a, b) == a.valid /\ b.valid /\ a.time < b.time

DateGt(a, b) == a.valid /\ b.valid /\ a.time > b.time

\* ------------------------------------------------------------ input sets
Monthly == "Monthly"

Quarterly == "Quarterly"

Annually == "Annually"

\* a billingCycle value outside the closed enum, as a document written by
\* another client may carry
UnknownCycle == "Weekly"

BillingCycles == {Monthly, Quarterly, Annually, UnknownCycle}

\* costs in cents
Costs == {1000}

\* category strings as sanitizeSubscriptionForDisplay leaves them ('' when the
\* document has none)
Categories == {""}

\* the clock starts on 2025-03-30, one tick after midnight
StartNow == DayTicks * DaysFromCivil(2025, 3, 30) + 1

\* stored nextRenewalDate strings: a date 25 days in the past, a date within
\* the next 30 days, a date beyond the 12-month horizon, and a string that is
\* not a date
RenewalDates ==
  { [y |-> 2025, m |-> 3, d |-> 5],
    [y |-> 2025, m |-> 3, d |-> 31],
    [y |-> 2026, m |-> 4, d |-> 20],
    [y |-> 2025, m |-> 13, d |-> 1] }

DocIds == 1..MaxSubs

\* the documents a snapshot may deliver
Docs ==
  [ id : DocIds, cost : Costs, billingCycle : BillingCycles,
    nextRenewalDate : RenewalDates, category : Categories,
    isAwaitingCancellation : BOOLEAN ]

\* the values the clock takes during a run
Clock == StartNow..(StartNow + MaxTicks)

\* f with every value computed once (f @@ <<>> is f)
Tabulate(f) == f @@ <<>>

\* subscriptions, now, renderedAt: the list held by useSubscriptions, the
\* wall clock, and the clock value at the last computation of the aggregates.
\* call, result: one application of a function of the program to an input,
\* and what it returned.
\* attempts, loginNow, allowedAt, limited: the loginLimiter's map, its clock
\* (Date.now(), in ms), the times at which isLimited returned false for each
\* key, and the outcome of the last isLimited call.
\* refusal: for each key, what getRemainingTime returned when the sign-in form
\* last refused it, and when that was (none once the key is let in again).
\* localStorage, updates: the two backup entries of the browser's storage,
\* and the lists setSubscriptions has been called with so far.
\* formData, editingId, formErrors: the form state of useSubscriptions.
\* inFlight: the Firestore write handleAddSubscription is awaiting, if any.
\* lastCall: the last handler of useSubscriptions that was called, the write
\* it issued and what it returned.
\* clock: the time since the search field was mounted, in ms.
\* searchTerm, debouncedValue, throttledValue: the state of useFilters and of
\* the useDebounce and useThrottle hooks fed with it; debounceHandler and
\* throttleHandler are their timers, timeoutId the timer of a debounce(func)
\* called with every input, invoked the calls of func so far.
\* typed, changedAt, throttledAt: the inputs so far, the time of the last
\* change of searchTerm and of the last update of throttledValue.
VARIABLES subscriptions, now, renderedAt, call, result,
          attempts, loginNow, allowedAt, limited, refusal,
          localStorage, updates,
          formData, editingId, formErrors, inFlight, lastCall,
          clock, searchTerm, debouncedValue, debounceHandler, throttledValue,
          throttleHandler, timeoutId, invoked, typed, changedAt, throttledAt

appVars == <<subscriptions, now, renderedAt>>

callVars == <<call, result>>

limiterVars == <<attempts, loginNow, allowedAt, limited, refusal>>

storageVars == <<localStorage, updates>>

handlerVars == <<formData, editingId, formErrors, inFlight, lastCall>>

timerVars ==
  <<clock, searchTerm, debouncedValue, debounceHandler, throttledValue,
    throttleHandler, timeoutId, invoked, typed, changedAt, throttledAt>>

\* what the hooks and the browser hold besides the list and the limiter
hookVars == <<storageVars, handlerVars, timerVars>>

vars == <<subscriptions, now, renderedAt, call, result,
          attempts, loginNow, allowedAt, limited, refusal,
          localStorage, updates,
          formData, editingId, formErrors, inFlight, lastCall,
          clock, searchTerm, debouncedValue, debounceHandler, throttledValue,
          throttleHandler, timeoutId, invoked, typed, changedAt, throttledAt>>

\* ------------------------------------------------------ sequence helpers
RECURSIVE SumSeq(_)
SumSeq(s) == IF s = <<>> THEN 0 ELSE Head(s) + SumSeq(Tail(s))

\* amounts are counted in twelfths of a cent
Amount(cost) == 12 * cost

\* parseFloat(x.toFixed(2)) of a non-negative amount: nearest whole cent
ToFixed2(amount) == ((amount + 6) \div 12) * 12

\* parseFloat(x.toFixed(2)) of any amount: toFixed rounds the magnitude
ToFixed2Signed(amount) == IF amount < 0 THEN 0 - ToFixed2(0 - amount) ELSE ToFixed2(amount)

\* parseFloat((amount / n).toFixed(2)) of a non-negative amount, n > 0
DivToFixed2(amount, n) == ((2 * amount + 12 * n) \div (24 * n)) * 12

\* -------------------------------------------------- useAnalytics helpers
calculateMonthlyRate(cost, billingCycle) ==
  CASE billingCycle = Monthly -> Amount(cost)
    [] billingCycle = Quarterly -> Amount(cost) \div 3
    [] billingCycle = Annually -> Amount(cost) \div 12
    [] OTHER -> Amount(cost)

\* the period as it would be if every cycle but Monthly were 90 days
cycleInDaysNoYear(billingCycle) == IF billingCycle = Monthly THEN 30 ELSE 90

cycleInDays(billingCycle) ==
  IF billingCycle = Monthly THEN 30
  ELSE IF billingCycle = Quarterly THEN 90
  ELSE 365

\* the loop as it would be with the test on the window start negated
RECURSIVE renewalsLoopBeforeWindow(_, _, _, _, _)
renewalsLoopBeforeWindow(currentDate, today, next12Months, days, count) ==
  IF DateLe(currentDate, next12Months)
  THEN renewalsLoopBeforeWindow(AddDays(currentDate, days), today, next12Months, days,
                                IF DateGe(currentDate, today) THEN count ELSE count + 1)
  ELSE count

\* the while loop of calculateRenewalsInNext12Months: the occurrences
\* currentDate + k * days inside the window [today, next12Months]
RECURSIVE renewalsLoop(_, _, _, _, _)
renewalsLoop(currentDate, today, next12Months, days, count) ==
  IF DateLe(currentDate, next12Months)
  THEN renewalsLoop(AddDays(currentDate, days), today, next12Months, days,
                    IF DateGe(currentDate, today) THEN count + 1 ELSE count)
  ELSE count

\* the function as it would be if the walk started at today for an anchor in
\* the past
calculateRenewalsFromToday(nextRenewalDate, billingCycle, today) ==
  LET renewalDate == ParseDate(nextRenewalDate)
      start == IF renewalDate.valid /\ renewalDate.time < today.time
               THEN today ELSE renewalDate
  IN  renewalsLoop(start, today, AddDays(today, 365), cycleInDays(billingCycle), 0)

calculateRenewalsInNext12Months(nextRenewalDate, billingCycle, today) ==
  LET renewalDate == ParseDate(nextRenewalDate)
      next12Months == AddDays(today, 365)
  IN  renewalsLoop(renewalDate, today, next12Months, cycleInDays(billingCycle), 0)

\* calculateRenewalsInNext12Months for every document and clock value of a
\* run: renewalsOf[sub][t] is the function's result for sub at today = t
renewalsOf ==
  Tabulate([sub \in Docs |-> Tabulate([t \in Clock |->
     calculateRenewalsInNext12Months(sub.nextRenewalDate, sub.billingCycle, DateAt(t))])])

\* subscriptions.filter((sub) => !sub.isAwaitingCancellation)
activeSubscriptions(subs) == SelectSeq(subs, LAMBDA sub : ~sub.isAwaitingCancellation)

\* subscriptions.filter((sub) => sub.isAwaitingCancellation)
awaitingCancellation(subs) == SelectSeq(subs, LAMBDA sub : sub.isAwaitingCancellation)

\* ------------------------------------------------ useAnalytics aggregates
totalMonthlyCost(subs) ==
  SumSeq([i \in 1..Len(subs) |->
            calculateMonthlyRate(subs[i].cost, subs[i].billingCycle)])

\* .reduce((total, sub) => total + renewals * sub.cost, 0)
debtOf(subs, today) ==
  SumSeq([i \in 1..Len(subs) |->
            renewalsOf[subs[i]][today.time] * Amount(subs[i].cost)])

\* the aggregate as it would be without the filter on isAwaitingCancellation
totalDebtUnfiltered(subs, today) == debtOf(subs, today)

totalDebt12Months(subs, today) == debtOf(activeSubscriptions(subs), today)

cancellationDebt(subs, today) == debtOf(awaitingCancellation(subs), today)

\* Array.prototype.sort with (a, b) => new Date(a.nextRenewalDate) -
\* new Date(b.nextRenewalDate): stable, ascending by time value
RECURSIVE insertByDate(_, _)
insertByDate(sorted, sub) ==
  IF sorted = <<>> THEN <<sub>>
  ELSE IF ParseDate(sub.nextRenewalDate).time < ParseDate(Head(sorted).nextRenewalDate).time
       THEN <<sub>> \o sorted
       ELSE <<Head(sorted)>> \o insertByDate(Tail(sorted), sub)

RECURSIVE sortByDate(_)
sortByDate(subs) ==
  IF subs = <<>> THEN <<>>
  ELSE insertByDate(sortByDate(SubSeq(subs, 1, Len(subs) - 1)), subs[Len(subs)])

upcomingRenewals(subs, today) ==
  LET thirtyDaysFromNow == AddDays(today, 30)
      keep(sub) ==
        LET renewalDate == ParseDate(sub.nextRenewalDate)
        IN  /\ DateGe(renewalDate, today)
            /\ DateLe(renewalDate, thirtyDaysFromNow)
            /\ ~sub.isAwaitingCancellation
  IN  sortByDate(SelectSeq(subs, keep))

\* the while loop that counts the renewals inside one trend month
RECURSIVE monthLoop(_, _, _, _, _)
monthLoop(currentDate, monthStart, monthEnd, days, renewalsInMonth) ==
  IF DateLe(currentDate, monthEnd)
  THEN monthLoop(AddDays(currentDate, days), monthStart, monthEnd, days,
                 IF DateGe(currentDate, monthStart) /\ DateLe(currentDate, monthEnd)
                 THEN renewalsInMonth + 1 ELSE renewalsInMonth)
  ELSE renewalsInMonth

\* the body of the reduce over the subscriptions for one trend month
monthSubCost(sub, monthDate) ==
  LET renewalDate == ParseDate(sub.nextRenewalDate)
      monthStart == MakeDate(GetFullYear(monthDate), GetMonth(monthDate), 1)
      monthEnd == MakeDate(GetFullYear(monthDate), GetMonth(monthDate) + 1, 0)
      renewalsInMonth ==
        monthLoop(renewalDate, monthStart, monthEnd, cycleInDays(sub.billingCycle), 0)
  IN  IF renewalsInMonth > 0 THEN Amount(sub.cost) * renewalsInMonth
      ELSE IF sub.billingCycle = Monthly THEN Amount(sub.cost)
      ELSE IF /\ sub.billingCycle = Quarterly
              /\ renewalDate.valid
              /\ DateLe(monthDate,
                        MakeDate(GetFullYear(renewalDate), GetMonth(renewalDate) + 3, 0))
           THEN Amount(sub.cost) \div 3
      ELSE IF /\ sub.billingCycle = Annually
              /\ renewalDate.valid
              /\ GetFullYear(monthDate) = GetFullYear(renewalDate)
           THEN Amount(sub.cost) \div 12
      ELSE 0

\* new Date(today.getFullYear(), today.getMonth() + i, 1)
monthDateOf(today, i) == MakeDate(GetFullYear(today), GetMonth(today) + i, 1)

\* monthSubCost for every document, clock value and trend month of a run:
\* monthSubCostOf[sub][t][i + 1] is monthSubCost(sub, monthDate) in the i-th
\* loop iteration when today = t
monthSubCostOf ==
  Tabulate([sub \in Docs |-> Tabulate([t \in Clock |-> Tabulate([n \in 1..12 |->
     monthSubCost(sub, monthDateOf(DateAt(t), n - 1))])])])

\* monthDate.getFullYear() and monthDate.getMonth() for every clock value and
\* trend month of a run
monthKeyOf ==
  Tabulate([t \in Clock |-> Tabulate([n \in 1..12 |->
     LET monthDate == monthDateOf(DateAt(t), n - 1)
     IN  [year |-> GetFullYear(monthDate), month |-> GetMonth(monthDate)]])])

\* one entry of the trend: i counts the months from the current one (0-based)
trendEntry(subs, today, i) ==
  LET monthCost == SumSeq([j \in 1..Len(subs) |-> monthSubCostOf[subs[j]][today.time][i + 1]])
  IN  [month |-> monthKeyOf[today.time][i + 1], cost |-> ToFixed2(monthCost)]

\* the loop as it would be with the bound i < 11
monthlyTrendDataShort(subs, today) == [n \in 1..11 |-> trendEntry(subs, today, n - 1)]

\* for (let i = 0; i < 12; i++) months.push(...)
monthlyTrendData(subs, today) == [n \in 1..12 |-> trendEntry(subs, today, n - 1)]

\* sub.category || 'Uncategorized' (the hook, the App and EnhancedAnalytics
\* all write it so)
categoryOf(sub) == IF sub.category = "" THEN "Uncategorized" ELSE sub.category

\* the keys of the category map, in insertion order
RECURSIVE categoryKeys(_)
categoryKeys(subs) ==
  IF subs = <<>> THEN <<>>
  ELSE LET before == categoryKeys(SubSeq(subs, 1, Len(subs) - 1))
           cat == categoryOf(subs[Len(subs)])
       IN  IF \E k \in 1..Len(before) : before[k] = cat THEN before
           ELSE Append(before, cat)

\* .sort((a, b) => b.value - a.value): stable, descending
RECURSIVE insertByValue(_, _)
insertByValue(sorted, entry) ==
  IF sorted = <<>> THEN <<entry>>
  ELSE IF entry.value > Head(sorted).value
       THEN <<entry>> \o sorted
       ELSE <<Head(sorted)>> \o insertByValue(Tail(sorted), entry)

RECURSIVE sortByValue(_)
sortByValue(entries) ==
  IF entries = <<>> THEN <<>>
  ELSE insertByValue(sortByValue(SubSeq(entries, 1, Len(entries) - 1)),
                     entries[Len(entries)])

categoryBreakdown(subs) ==
  LET keys == categoryKeys(subs)
      categoryMap(cat) ==
        LET members == SelectSeq(subs, LAMBDA sub : categoryOf(sub) = cat)
        IN  SumSeq([i \in 1..Len(members) |->
                      calculateMonthlyRate(members[i].cost, members[i].billingCycle)])
  IN  sortByValue([k \in 1..Len(keys) |->
                     [name |-> keys[k], value |-> ToFixed2(categoryMap(keys[k]))]])

\* .sort((a, b) => calculateMonthlyRate(b...) - calculateMonthlyRate(a...)):
\* stable, descending by monthly rate
RECURSIVE insertByRate(_, _)
insertByRate(sorted, sub) ==
  IF sorted = <<>> THEN <<sub>>
  ELSE IF calculateMonthlyRate(sub.cost, sub.billingCycle)
            > calculateMonthlyRate(Head(sorted).cost, Head(sorted).billingCycle)
       THEN <<sub>> \o sorted
       ELSE <<Head(sorted)>> \o insertByRate(Tail(sorted), sub)

RECURSIVE sortByRate(_)
sortByRate(subs) ==
  IF subs = <<>> THEN <<>>
  ELSE insertByRate(sortByRate(SubSeq(subs, 1, Len(subs) - 1)), subs[Len(subs)])

\* array.slice(0, count)
Slice(array, count) == SubSeq(array, 1, IF Len(array) < count THEN Len(array) ELSE count)

topExpensiveSubscriptions(subs) == Slice(sortByRate(activeSubscriptions(subs)), 5)

useAnalytics(subs, today) ==
  [ today |-> today,
    totalMonthlyCost |-> totalMonthlyCost(subs),
    totalDebt12Months |-> totalDebt12Months(subs, today),
    cancellationDebt |-> cancellationDebt(subs, today),
    categoryBreakdown |-> categoryBreakdown(subs),
    topExpensiveSubscriptions |-> topExpensiveSubscriptions(subs),
    upcomingRenewals |-> upcomingRenewals(subs, today),
    monthlyTrendData |-> monthlyTrendData(subs, today) ]

\* ------------------------------------------------- App-level computations
App_calculateMonthlyRate(cost, billingCycle) ==
  CASE billingCycle = Monthly -> Amount(cost)
    [] billingCycle = Quarterly -> Amount(cost) \div 3
    [] billingCycle = Annually -> Amount(cost) \div 12
    [] OTHER -> Amount(cost)

getUpcomingRenewals(subs, today) ==
  LET thirtyDaysFromNow == AddDays(today, 30)
      keep(sub) ==
        LET renewalDate == ParseDate(sub.nextRenewalDate)
        IN  /\ DateGe(renewalDate, today)
            /\ DateLe(renewalDate, thirtyDaysFromNow)
            /\ ~sub.isAwaitingCancellation
  IN  sortByDate(SelectSeq(subs, keep))

App_monthSubCost(sub, monthDate) ==
  LET renewalDate == ParseDate(sub.nextRenewalDate)
      days == IF sub.billingCycle = Monthly THEN 30
              ELSE IF sub.billingCycle = Quarterly THEN 90 ELSE 365
      monthStart == MakeDate(GetFullYear(monthDate), GetMonth(monthDate), 1)
      monthEnd == MakeDate(GetFullYear(monthDate), GetMonth(monthDate) + 1, 0)
      renewalsInMonth == monthLoop(renewalDate, monthStart, monthEnd, days, 0)
  IN  IF renewalsInMonth > 0 THEN Amount(sub.cost) * renewalsInMonth
      ELSE IF sub.billingCycle = Monthly THEN Amount(sub.cost)
      ELSE IF /\ sub.billingCycle = Quarterly
              /\ renewalDate.valid
              /\ DateLe(monthDate,
                        MakeDate(GetFullYear(renewalDate), GetMonth(renewalDate) + 3, 0))
           THEN Amount(sub.cost) \div 3
      ELSE IF /\ sub.billingCycle = Annually
              /\ renewalDate.valid
              /\ GetFullYear(monthDate) = GetFullYear(renewalDate)
           THEN Amount(sub.cost) \div 12
      ELSE 0

\* App_monthSubCost for every document, clock value and trend month of a run
App_monthSubCostOf ==
  Tabulate([sub \in Docs |-> Tabulate([t \in Clock |-> Tabulate([n \in 1..12 |->
     App_monthSubCost(sub, MakeDate(GetFullYear(DateAt(t)), GetMonth(DateAt(t)) + (n - 1), 1))])])])

\* monthDate.getFullYear() and monthDate.getMonth() for every clock value and
\* trend month of a run
App_monthKeyOf ==
  Tabulate([t \in Clock |-> Tabulate([n \in 1..12 |->
     LET monthDate == MakeDate(GetFullYear(DateAt(t)), GetMonth(DateAt(t)) + (n - 1), 1)
     IN  [year |-> GetFullYear(monthDate), month |-> GetMonth(monthDate)]])])

getMonthlyTrendData(subs, today) ==
  [n \in 1..12 |->
     LET monthCost == SumSeq([j \in 1..Len(subs) |-> App_monthSubCostOf[subs[j]][today.time][n]])
     IN  [month |-> App_monthKeyOf[today.time][n], cost |-> ToFixed2(monthCost)]]

getCategoryBreakdown(subs) ==
  LET keys == categoryKeys(subs)
      categoryMap(cat) ==
        LET members == SelectSeq(subs, LAMBDA sub : categoryOf(sub) = cat)
        IN  SumSeq([i \in 1..Len(members) |->
                      App_calculateMonthlyRate(members[i].cost, members[i].billingCycle)])
  IN  sortByValue([k \in 1..Len(keys) |->
                     [name |-> keys[k], value |-> ToFixed2(categoryMap(keys[k]))]])

\* .sort((a, b) => parseFloat(b.cost) - parseFloat(a.cost)): stable,
\* descending by raw cost
RECURSIVE insertByCost(_, _)
insertByCost(sorted, sub) ==
  IF sorted = <<>> THEN <<sub>>
  ELSE IF sub.cost > Head(sorted).cost
       THEN <<sub>> \o sorted
       ELSE <<Head(sorted)>> \o insertByCost(Tail(sorted), sub)

RECURSIVE sortByCost(_)
sortByCost(subs) ==
  IF subs = <<>> THEN <<>>
  ELSE insertByCost(sortByCost(SubSeq(subs, 1, Len(subs) - 1)), subs[Len(subs)])

\* getTopExpensiveSubscriptions(subscriptions, count): Array.prototype.sort
\* sorts the array it is called on, so the call leaves its argument sorted.
\* given is the argument after the call, returned the value of the call.
getTopExpensiveSubscriptions(subs, count) ==
  LET sorted == sortByCost(subs)
      top == Slice(sorted, count)
  IN  [ given |-> sorted,
        returned |-> [i \in 1..Len(top) |->
                        [id |-> top[i].id, cost |-> top[i].cost, cycle |-> top[i].billingCycle]] ]

\* ------------------------------------------------------ EnhancedAnalytics
\* the monthly equivalent computed inline by calculateCategoryTrend
inlineMonthlyRate(cost, billingCycle) ==
  IF billingCycle = Monthly THEN Amount(cost)
  ELSE IF billingCycle = Quarterly THEN Amount(cost) \div 3
  ELSE IF billingCycle = Annually THEN Amount(cost) \div 12
  ELSE 0

\* .sort((a, b) => b.totalMonthly - a.totalMonthly): stable, descending
RECURSIVE insertByTotal(_, _)
insertByTotal(sorted, entry) ==
  IF sorted = <<>> THEN <<entry>>
  ELSE IF entry.totalMonthly > Head(sorted).totalMonthly
       THEN <<entry>> \o sorted
       ELSE <<Head(sorted)>> \o insertByTotal(Tail(sorted), entry)

RECURSIVE sortByTotal(_)
sortByTotal(entries) ==
  IF entries = <<>> THEN <<>>
  ELSE insertByTotal(sortByTotal(SubSeq(entries, 1, Len(entries) - 1)),
                     entries[Len(entries)])

calculateCategoryTrend(subs) ==
  LET keys == categoryKeys(subs)
      costs(cat) ==
        LET members == SelectSeq(subs, LAMBDA sub : categoryOf(sub) = cat)
        IN  [i \in 1..Len(members) |->
               inlineMonthlyRate(members[i].cost, members[i].billingCycle)]
  IN  sortByTotal([k \in 1..Len(keys) |->
                     [category |-> keys[k],
                      totalMonthly |-> ToFixed2(SumSeq(costs(keys[k]))),
                      avgCost |-> DivToFixed2(SumSeq(costs(keys[k])), Len(costs(keys[k]))),
                      count |-> Len(costs(keys[k]))]])

\* what the App renders from the list: the upcoming-renewals alert, and the
\* EnhancedAnalytics panel (only when there is an active subscription), which
\* is handed the active subscriptions and their trend
\* actualSpending / forecastSpending: null, or a number
Null == [isNull |-> TRUE, value |-> 0]

Num(v) == [isNull |-> FALSE, value |-> v]

\* the projection as it would be without the factor i
forecastPointFlat(lastCost, avgChange, i) == Num(ToFixed2Signed(lastCost + avgChange))

\* parseFloat((lastCost + avgChange * i).toFixed(2))
forecastPoint(lastCost, avgChange, i) == Num(ToFixed2Signed(lastCost + avgChange * i))

\* nextDate.getFullYear() and nextDate.getMonth() after
\* nextDate.setMonth(nextDate.getMonth() + i), for every clock value of a run
nextDateKeyOf ==
  Tabulate([t \in Clock |-> Tabulate([i \in 1..3 |->
     LET today == DateAt(t)
         nextDate == MakeDate(GetFullYear(today), GetMonth(today) + i, GetDate(today))
     IN  [year |-> GetFullYear(nextDate), month |-> GetMonth(nextDate)]])])

\* calculateForecast() of EnhancedAnalytics for the monthlyTrendData prop;
\* today is the new Date() taken inside the loop
calculateForecast(trend, today) ==
  IF Len(trend) < 3
  THEN [n \in 1..Len(trend) |->
          [month |-> trend[n].month, cost |-> trend[n].cost,
           actualSpending |-> Num(trend[n].cost), forecastSpending |-> Null]]
  ELSE LET recent == SubSeq(trend, Len(trend) - 2, Len(trend))
           avgChange == ((recent[2].cost - recent[1].cost)
                           + (recent[3].cost - recent[2].cost)) \div (Len(recent) - 1)
           lastCost == trend[Len(trend)].cost
           actualData == [n \in 1..Len(trend) |->
                            [month |-> trend[n].month,
                             actualSpending |-> Num(trend[n].cost),
                             forecastSpending |-> Null]]
           forecast == [i \in 1..3 |->
                          [month |-> nextDateKeyOf[today.time][i],
                           actualSpending |-> Null,
                           forecastSpending |-> forecastPoint(lastCost, avgChange, i)]]
       IN  actualData \o forecast

\* The cards are evaluated in the order of the JSX: the category chart, the
\* top-expensive card (which sorts activeSubscriptions in place), the
\* upcoming renewals, then EnhancedAnalytics with the array as the card left it.
renderDashboard(subs, today) ==
  LET active == activeSubscriptions(subs)
      shown == Len(active) > 0
      topCard == getTopExpensiveSubscriptions(active, 5)
      trend == getMonthlyTrendData(topCard.given, today)
  IN  [ today |-> today,
        categoryChart |-> IF shown THEN getCategoryBreakdown(active) ELSE <<>>,
        topExpensive |-> IF shown THEN topCard.returned ELSE <<>>,
        upcoming |-> getUpcomingRenewals(subs, today),
        enhancedShown |-> shown,
        monthlyTrendData |-> IF shown THEN trend ELSE <<>>,
        forecast |-> IF shown THEN calculateForecast(trend, today) ELSE <<>>,
        categoryTrend |-> IF shown THEN calculateCategoryTrend(topCard.given) ELSE <<>> ]

\* ----------------------------------------------------------- the machine
\* the documents of a snapshot come ordered by document id
RECURSIVE insertById(_, _)
insertById(subs, doc) ==
  IF subs = <<>> THEN <<doc>>
  ELSE IF doc.id < Head(subs).id THEN <<doc>> \o subs
       ELSE <<Head(subs)>> \o insertById(Tail(subs), doc)

\* setSubscriptions(subs) and the render it causes: the useMemo dependencies
\* changed, so every aggregate is recomputed, each with a fresh new Date()
Rerender(subs) ==
  /\ subscriptions' = subs
  /\ renderedAt' = now
  /\ UNCHANGED now
  /\ UNCHANGED <<callVars, limiterVars, hookVars>>

\* the values the hook holds after the last render (useMemo keeps them until
\* the subscriptions change again)
analytics == useAnalytics(subscriptions, DateAt(renderedAt))

\* what the App shows after the last render
dashboard == renderDashboard(subscriptions, DateAt(renderedAt))

\* no function is being applied
NoCall == [fn |-> "none"]

NoResult == [done |-> FALSE]

\* the two addresses that sign in
LoginKeys == {"ann@example.com", "bob@example.com"}

\* the form has not refused the key
NoRefusal == [refused |-> FALSE]

\* localStorage.getItem(key) of a key never written is null
NoItem == [present |-> FALSE]

backupsKey == "subscriptions_backups"

latestKey == "subscriptions_latest_backup"

\* a text field left empty
EmptyText == [sanitized |-> "", length |-> 0]

\* the cost field left empty: parseFloat('') is NaN
EmptyCost ==
  [numeric |-> FALSE, negative |-> FALSE, units |-> 0, thousandths |-> 0, junk |-> FALSE]

\* the date field left empty
EmptyDate == [y |-> 0, m |-> 0, d |-> 0]

\* the argument of useState for formData (status and paymentHistory are not
\* modelled: no computation reads them)
useStateFormData ==
  [ name |-> EmptyText, cost |-> EmptyCost, currency |-> "USD", billingCycle |-> Monthly,
    nextRenewalDate |-> EmptyDate, category |-> EmptyText,
    isAwaitingCancellation |-> "false" ]

\* editingId of useState(null), and no write awaited
null == [isNull |-> TRUE]

NoWrite == [op |-> "none"]

NoHandler == [handler |-> "none"]

\* the promise of an async handler that has not returned
NotYet == [awaiting |-> TRUE]

\* useDebounce(searchTerm, 300); delay = 300 is also the default
delay == 300

\* useThrottle(value, limit = 300)
limit == 300

\* no timer is set, or the one that was set has fired or been cleared
NoTimer == [set |-> FALSE]

\* the timer as it would be when a pending one were left to run with the
\* new value
keepTimeout(handler, value, at, ms) ==
  IF handler.set THEN [handler EXCEPT !.value = value]
  ELSE [set |-> TRUE, value |-> value, due |-> at + ms]

\* clearTimeout(handler) followed by setTimeout(() => ..., ms) at time at:
\* the one timer that is pending afterwards
restartTimeout(handler, value, at, ms) == [set |-> TRUE, value |-> value, due |-> at + ms]

\* setTimeout(() => ..., ms) at time at
setTimeout(value, at, ms) == [set |-> TRUE, value |-> value, due |-> at + ms]

\* a browser that has stored no backup, and the hooks as they are mounted
HooksMounted ==
  /\ localStorage = [key \in {backupsKey, latestKey} |-> NoItem]
  /\ updates = <<>>
  /\ formData = useStateFormData
  /\ editingId = null
  /\ formErrors = {}
  /\ inFlight = NoWrite
  /\ lastCall = NoHandler
  /\ clock = 0
  /\ searchTerm = ""
  /\ debouncedValue = ""
  /\ debounceHandler = setTimeout("", 0, delay)
  /\ throttledValue = ""
  /\ throttleHandler = setTimeout("", 0, limit)
  /\ timeoutId = NoTimer
  /\ invoked = <<>>
  /\ typed = <<>>
  /\ changedAt = 0
  /\ throttledAt = 0

Init ==
  /\ subscriptions = <<>>
  /\ now = StartNow
  /\ renderedAt = StartNow
  /\ call = NoCall
  /\ result = NoResult
  /\ attempts = [key \in LoginKeys |-> <<>>]
  /\ loginNow = 0
  /\ allowedAt = [key \in LoginKeys |-> <<>>]
  /\ limited = [key |-> "", value |-> FALSE]
  /\ refusal = [key \in LoginKeys |-> NoRefusal]
  /\ HooksMounted

\* a document is added to the collection and the snapshot listener fires
SnapshotAdded(doc) ==
  /\ Len(subscriptions) < MaxSubs
  /\ \A i \in 1..Len(subscriptions) : subscriptions[i].id # doc.id
  /\ Rerender(insertById(subscriptions, doc))

\* handleDeleteSubscription: deleteDoc, then the snapshot without the document
DeleteSubscription(i) ==
  /\ i \in 1..Len(subscriptions)
  /\ Rerender(SubSeq(subscriptions, 1, i - 1)
                \o SubSeq(subscriptions, i + 1, Len(subscriptions)))

\* handleToggleCancellation(id, isAwaitingCancellation): updateDoc with the
\* negated flag, then the snapshot with the modified document
ToggleCancellation(i) ==
  /\ i \in 1..Len(subscriptions)
  /\ Rerender([subscriptions EXCEPT
                 ![i].isAwaitingCancellation = ~subscriptions[i].isAwaitingCancellation])

\* time passes; nothing is recomputed
Tick ==
  /\ now < StartNow + MaxTicks
  /\ now' = now + 1
  /\ UNCHANGED <<subscriptions, renderedAt>>
  /\ UNCHANGED <<callVars, limiterVars, hookVars>>

Next ==
  \/ \E doc \in Docs : SnapshotAdded(doc)
  \/ \E i \in 1..MaxSubs : DeleteSubscription(i)
  \/ \E i \in 1..MaxSubs : ToggleCancellation(i)
  \/ Tick

Spec == Init /\ [][Next]_vars

\* ------------------------------------------- the functions, one call each
\* A run of CallSpec applies one function of the program to one input.

\* lists with several costs and categories; every date is 2025-03-31
CatalogCosts == {500, 1000}

CatalogCategories == {"", "Music"}

CatalogCycles == {Monthly, Annually}

CatalogFields ==
  [ cost : CatalogCosts, billingCycle : CatalogCycles,
    category : CatalogCategories, isAwaitingCancellation : BOOLEAN ]

\* the document with these fields at position i of a snapshot
CatalogDoc(i, f) ==
  [ id |-> i, cost |-> f.cost, billingCycle |-> f.billingCycle,
    nextRenewalDate |-> [y |-> 2025, m |-> 3, d |-> 31],
    category |-> f.category, isAwaitingCancellation |-> f.isAwaitingCancellation ]

Catalogs ==
  UNION { { [i \in 1..n |-> CatalogDoc(i, fs[i])] : fs \in [1..n -> CatalogFields] }
          : n \in 0..MaxSubs }

\* lists longer than the five rows of the top-expensive card: active
\* subscriptions, each either 5.00 a month or 10.00 a year
LongLists ==
  { [i \in 1..MaxLongList |->
       CatalogDoc(i, IF i \in yearly
                     THEN [cost |-> 1000, billingCycle |-> Annually, category |-> "",
                           isAwaitingCancellation |-> FALSE]
                     ELSE [cost |-> 500, billingCycle |-> Monthly, category |-> "",
                           isAwaitingCancellation |-> FALSE])]
    : yearly \in SUBSET (1..MaxLongList) }

\* values the isAwaitingCancellation field of a document may hold, written as
\* JavaScript literals: "undefined" is a document without the field
FlagValues == {"undefined", "null", "false", "true", "0", "1", "''", "'false'"}

\* the truthiness of a value of FlagValues
ToBoolean(v) == v \notin {"undefined", "null", "false", "0", "''"}

\* lists of documents that differ in the flag only
FlagLists ==
  UNION { { [i \in 1..n |-> [id |-> i, cost |-> 1000, billingCycle |-> Monthly,
                              isAwaitingCancellation |-> flags[i]]]
            : flags \in [1..n -> FlagValues] }
          : n \in 0..MaxSubs }

StatisticsCalls == { [fn |-> "statistics", subs |-> subs] : subs \in FlagLists }

\* (sub) => !sub.isAwaitingCancellation
isActive(sub) == ~ToBoolean(sub.isAwaitingCancellation)

\* the second filter as it would be with a strict comparison to true
isAwaitingStrict(sub) == sub.isAwaitingCancellation = "true"

\* (sub) => sub.isAwaitingCancellation
isAwaiting(sub) == ToBoolean(sub.isAwaitingCancellation)

\* the statistics memo of useAnalytics; active and awaiting are the two
\* filtered arrays (the App builds the same two for its cards)
statistics(subs, total) ==
  LET active == SelectSeq(subs, isActive)
      awaiting == SelectSeq(subs, isAwaiting)
  IN  [ active |-> active,
        awaiting |-> awaiting,
        activeCount |-> Len(active),
        cancellationCount |-> Len(awaiting),
        totalCount |-> Len(subs),
        averageCost |-> IF Len(active) > 0 THEN DivToFixed2(total, Len(active)) ELSE 0 ]

\* what may be typed in the cost field: a decimal numeral with three
\* decimals, "-" before it or not, letters after it or not; or no numeral
CostTexts ==
  [ numeric : {TRUE}, negative : BOOLEAN, units : {0, 1, 999998, 999999, 1000000},
    thousandths : {0, 1, 4, 5, 6, 994, 995, 999}, junk : BOOLEAN ]
  \cup { [numeric |-> FALSE, negative |-> FALSE, units |-> 0, thousandths |-> 0,
          junk |-> TRUE] }

\* parseFloat(text): the number the leading numeral denotes, in thousandths
\* (what follows the numeral is ignored), or NaN
parseFloat(text) ==
  IF ~text.numeric THEN [nan |-> TRUE, milli |-> 0]
  ELSE [nan |-> FALSE,
        milli |-> (IF text.negative THEN 0 - 1 ELSE 1)
                    * (1000 * text.units + text.thousandths)]

\* Math.round(numCost * 100) of a number given in thousandths: the nearest
\* whole number of cents, halves upwards
RoundToCents(milli) == (milli + 5) \div 10

\* validateCost(cost); sanitized is in cents
validateCost(cost) ==
  LET numCost == parseFloat(cost)
  IN  IF numCost.nan THEN [valid |-> FALSE, error |-> "Cost must be a number"]
      ELSE IF numCost.milli <= 0
           THEN [valid |-> FALSE, error |-> "Cost must be greater than 0"]
      ELSE IF numCost.milli > 999999 * 1000
           THEN [valid |-> FALSE, error |-> "Cost too high (max 999999)"]
      ELSE [valid |-> TRUE, sanitized |-> RoundToCents(numCost.milli)]

\* what may be in the date field: yesterday, today, tomorrow, the last day
\* within 100 years, the day after it, a string that is not a date, and the
\* empty string (the clock of a call stands at StartNow, on 2025-03-30)
DateTexts ==
  { [y |-> 2025, m |-> 3, d |-> 29],
    [y |-> 2025, m |-> 3, d |-> 30],
    [y |-> 2025, m |-> 3, d |-> 31],
    [y |-> 2125, m |-> 3, d |-> 30],
    [y |-> 2125, m |-> 3, d |-> 31],
    [y |-> 2025, m |-> 13, d |-> 1],
    [y |-> 0, m |-> 0, d |-> 0] }

\* validateFutureDate(dateString) when new Date() is at; new Date(string)
\* does not throw, so the catch branch is never taken
validateFutureDate(dateString, at) ==
  LET date == ParseDate(dateString)
      today == DateAt(DayTicks * DayNumber(at))
      timeOfDay == at.time - today.time
      maxDay == MakeDate(GetFullYear(at) + 100, GetMonth(at), GetDate(at))
      maxDate == DateAt(maxDay.time + timeOfDay)
  IN  IF DateLt(date, today)
      THEN [valid |-> FALSE, error |-> "Date must be in the future"]
      ELSE IF DateGt(date, maxDate)
           THEN [valid |-> FALSE, error |-> "Date too far in future (max 100 years)"]
      ELSE [valid |-> TRUE, sanitized |-> dateString]

DateCalls == { [fn |-> "validateFutureDate", dateString |-> text] : text \in DateTexts }

\* a text field: what sanitizeString(text).trim() leaves of it, and how many
\* characters that is
NameTexts ==
  { [sanitized |-> "", length |-> 0],
    [sanitized |-> "Netflix", length |-> 7],
    [sanitized |-> "Netflix...", length |-> 201] }

validateSubscriptionName(name) ==
  IF name.length = 0 THEN [valid |-> FALSE, error |-> "Name cannot be empty"]
  ELSE IF name.length > 200 THEN [valid |-> FALSE, error |-> "Name too long (max 200 characters)"]
  ELSE [valid |-> TRUE, sanitized |-> name.sanitized]

validCurrencies ==
  { "USD", "EUR", "GBP", "JPY", "AUD", "CAD", "CHF",
    "CNY", "HKD", "INR", "IDR", "KRW", "MYR", "NZD", "PHP", "SGD", "THB", "TWD", "VND",
    "BDT", "PKR", "LKR", "MMK", "KHR", "LAK",
    "BGN", "CZK", "DKK", "HRK", "HUF", "ISK", "NOK", "PLN", "RON", "RUB", "SEK", "TRY", "UAH",
    "ARS", "BRL", "CLP", "COP", "MXN", "PEN", "UYU",
    "AED", "BHD", "EGP", "ILS", "JOD", "KWD", "LBP", "OMR", "QAR", "SAR",
    "GHS", "ETB", "KES", "MAD", "NGN", "RWF", "TZS", "UGX", "ZAR", "ZMW", "BIF" }

\* currency is the field after sanitizeString(...).toUpperCase().trim()
validateCurrency(currency) ==
  IF currency \notin validCurrencies THEN [valid |-> FALSE, error |-> "Invalid currency"]
  ELSE [valid |-> TRUE, sanitized |-> currency]

validateBillingCycle(cycle) ==
  IF cycle \notin {"Monthly", "Quarterly", "Annually"}
  THEN [valid |-> FALSE, error |-> "Billing cycle must be Monthly, Quarterly, or Annually"]
  ELSE [valid |-> TRUE, sanitized |-> cycle]

validateCategory(category) ==
  IF category.length > 100 THEN [valid |-> FALSE, error |-> "Category too long (max 100 characters)"]
  ELSE [valid |-> TRUE, sanitized |-> category.sanitized]

\* the form data handed to validateSubscription
FormData ==
  [ name : NameTexts,
    cost : { [numeric |-> TRUE, negative |-> FALSE, units |-> 0, thousandths |-> 4, junk |-> FALSE],
             [numeric |-> TRUE, negative |-> FALSE, units |-> 1, thousandths |-> 995, junk |-> FALSE],
             [numeric |-> FALSE, negative |-> FALSE, units |-> 0, thousandths |-> 0, junk |-> TRUE] },
    currency : {"USD", "XXX"},
    billingCycle : {Monthly, UnknownCycle},
    nextRenewalDate : { [y |-> 2025, m |-> 3, d |-> 29], [y |-> 2025, m |-> 3, d |-> 31],
                        [y |-> 2025, m |-> 13, d |-> 1] },
    category : { [sanitized |-> "", length |-> 0], [sanitized |-> "Music", length |-> 5],
                 [sanitized |-> "Music...", length |-> 101] },
    isAwaitingCancellation : {"undefined", "true"} ]

\* validateSubscription(data) when new Date() is at; errors holds the keys
\* of the errors object (status is not modelled: no computation reads it)
validateSubscription(data, at) ==
  LET nameValidation == validateSubscriptionName(data.name)
      costValidation == validateCost(data.cost)
      currencyValidation == validateCurrency(data.currency)
      cycleValidation == validateBillingCycle(data.billingCycle)
      dateValidation == validateFutureDate(data.nextRenewalDate, at)
      hasCategory == data.category.length > 0
      errors ==
        (IF nameValidation.valid THEN {} ELSE {"name"})
          \cup (IF costValidation.valid THEN {} ELSE {"cost"})
          \cup (IF currencyValidation.valid THEN {} ELSE {"currency"})
          \cup (IF cycleValidation.valid THEN {} ELSE {"billingCycle"})
          \cup (IF dateValidation.valid THEN {} ELSE {"nextRenewalDate"})
          \cup (IF hasCategory /\ ~validateCategory(data.category).valid
                THEN {"category"} ELSE {})
  IN  IF errors # {} THEN [valid |-> FALSE, errors |-> errors]
      ELSE [ valid |-> TRUE,
             sanitized |->
               [ name |-> nameValidation.sanitized,
                 cost |-> costValidation.sanitized,
                 currency |-> currencyValidation.sanitized,
                 billingCycle |-> cycleValidation.sanitized,
                 nextRenewalDate |-> dateValidation.sanitized,
                 category |-> IF hasCategory THEN validateCategory(data.category).sanitized
                              ELSE "",
                 isAwaitingCancellation |-> ToBoolean(data.isAwaitingCancellation) ] ]

SubscriptionCalls == { [fn |-> "validateSubscription", data |-> data] : data \in FormData }

CostCalls == { [fn |-> "validateCost", cost |-> text] : text \in CostTexts }

ListCalls ==
  { [fn |-> fn, subs |-> subs] :
      fn \in {"useAnalytics", "App"}, subs \in Catalogs \cup LongLists }

\* the values of the options of the status select of FilterPanel
StatusOptions == {"all", "Active", "Paused", "Cancelled"}

\* the values of the options of the category select for these lists
CategoryOptions == {"all", "Music"}

\* the status filter of useFilters
passesStatusFilter(sub, filterStatus) ==
  IF filterStatus # "all"
  THEN IF filterStatus = "active" THEN ~ToBoolean(sub.isAwaitingCancellation)
       ELSE IF filterStatus = "cancellation" THEN ToBoolean(sub.isAwaitingCancellation)
       ELSE TRUE
  ELSE TRUE

\* filteredSubscriptions of useFilters with the search term, the cost range
\* and the date range left empty (an empty one filters nothing)
filteredSubscriptions(subs, filterStatus, filterCategory) ==
  LET Kept(sub) ==
        /\ passesStatusFilter(sub, filterStatus)
        /\ ~(filterCategory # "all" /\ categoryOf(sub) # filterCategory)
  IN  SelectSeq(subs, Kept)

FilterCalls ==
  { [fn |-> "useFilters", subs |-> subs, filterStatus |-> status, filterCategory |-> category] :
      subs \in Catalogs, status \in StatusOptions, category \in CategoryOptions }

Calls ==
  ListCalls \cup StatisticsCalls \cup CostCalls \cup DateCalls \cup SubscriptionCalls
    \cup FilterCalls

CallInit ==
  /\ subscriptions = <<>>
  /\ now = StartNow
  /\ renderedAt = StartNow
  /\ call \in Calls
  /\ result = NoResult
  /\ attempts = [key \in LoginKeys |-> <<>>]
  /\ loginNow = 0
  /\ allowedAt = [key \in LoginKeys |-> <<>>]
  /\ limited = [key |-> "", value |-> FALSE]
  /\ refusal = [key \in LoginKeys |-> NoRefusal]
  /\ HooksMounted

\* the function returns
Return(value) ==
  /\ ~result.done
  /\ result' = [done |-> TRUE, value |-> value]
  /\ UNCHANGED <<appVars, call, limiterVars, hookVars>>

\* the list memos of useAnalytics for call.subs; given is the array after
\* the memos ran (filter copies before it sorts; forEach only reads)
ApplyUseAnalytics ==
  /\ call.fn = "useAnalytics"
  /\ Return([ given |-> call.subs,
              categoryBreakdown |-> categoryBreakdown(call.subs),
              topExpensiveSubscriptions |-> topExpensiveSubscriptions(call.subs) ])

\* the category chart and the top-expensive card of the App for call.subs:
\* both are handed activeSubscriptions (passed); given is that array after
\* the two calls
ApplyAppCards ==
  /\ call.fn = "App"
  /\ LET active == activeSubscriptions(call.subs)
         chart == getCategoryBreakdown(active)
         topCard == getTopExpensiveSubscriptions(active, 5)
     IN  Return([ passed |-> active,
                  given |-> topCard.given,
                  categoryChart |-> chart,
                  topExpensive |-> topCard.returned ])

ApplyStatistics ==
  /\ call.fn = "statistics"
  /\ Return(statistics(call.subs, totalMonthlyCost(call.subs)))

ApplyValidateCost ==
  /\ call.fn = "validateCost"
  /\ Return(validateCost(call.cost))

ApplyValidateFutureDate ==
  /\ call.fn = "validateFutureDate"
  /\ Return(validateFutureDate(call.dateString, DateAt(now)))

\* handleAddSubscription up to the write: validation.sanitized is what
\* addDoc / updateDoc stores
ApplyValidateSubscription ==
  /\ call.fn = "validateSubscription"
  /\ Return(validateSubscription(call.data, DateAt(now)))

\* the table's list after a choice in the filter panel
ApplyUseFilters ==
  /\ call.fn = "useFilters"
  /\ Return(filteredSubscriptions(call.subs, call.filterStatus, call.filterCategory))

CallNext ==
  \/ ApplyUseFilters
  \/ ApplyValidateFutureDate
  \/ ApplyValidateSubscription
  \/ ApplyUseAnalytics
  \/ ApplyAppCards
  \/ ApplyStatistics
  \/ ApplyValidateCost

CallSpec == CallInit /\ [][CallNext]_vars

\* ------------------------------------------------------- the loginLimiter
\* new RateLimiter(5, 5 * 60 * 1000)
maxAttempts == 5

\* 5 * 60 * 1000
windowMs == 300000

\* the time between two events at the login form: half a window, or 1 ms
\* less, so that two of them make a whole window or fall 1 ms short of it
LoginDelays == {windowMs \div 2, (windowMs \div 2) - 1}

\* the filter as it would be with half the window
validAttemptsHalfWindow(userAttempts, at) ==
  SelectSeq(userAttempts, LAMBDA time : at - time < windowMs \div 2)

\* userAttempts.filter(time => now - time < this.windowMs)
validAttempts(userAttempts, at) ==
  SelectSeq(userAttempts, LAMBDA time : at - time < windowMs)

\* the number of calls for these keys that returned false so far
RECURSIVE CountAllowed(_)
CountAllowed(keys) ==
  IF keys = {} THEN 0
  ELSE LET key == CHOOSE key \in keys : TRUE
       IN  Len(allowedAt[key]) + CountAllowed(keys \ {key})

\* the remaining time as it would be when the elapsed time were returned
getRemainingTimeElapsed(userAttempts, at) ==
  IF Len(userAttempts) = 0 THEN 0
  ELSE LET oldestAttempt == userAttempts[1]
           remaining == at - oldestAttempt
       IN  IF remaining > 0 THEN remaining ELSE 0

\* getRemainingTime(key) when Date.now() is at; userAttempts is
\* this.attempts.get(key) || []
getRemainingTime(userAttempts, at) ==
  IF Len(userAttempts) = 0 THEN 0
  ELSE LET oldestAttempt == userAttempts[1]
           remaining == windowMs - (at - oldestAttempt)
       IN  IF remaining > 0 THEN remaining ELSE 0

\* AuthPage.handleSubmit for the address key: loginLimiter.isLimited(key).
\* When it returns true the map is left as it was and the form shows
\* getRemainingTime(key); otherwise the filtered list with the current time
\* appended is stored.
IsLimited(key) ==
  /\ CountAllowed(LoginKeys) < MaxLoginCalls
  /\ LET valid == validAttempts(attempts[key], loginNow)
     IN  IF Len(valid) >= maxAttempts
         THEN /\ limited' = [key |-> key, value |-> TRUE]
              /\ refusal' = [refusal EXCEPT ![key] =
                               [refused |-> TRUE, at |-> loginNow,
                                remainingTime |-> getRemainingTime(attempts[key], loginNow)]]
              /\ UNCHANGED <<attempts, allowedAt>>
         ELSE /\ attempts' = [attempts EXCEPT ![key] = Append(valid, loginNow)]
              /\ allowedAt' = [allowedAt EXCEPT ![key] = Append(@, loginNow)]
              /\ limited' = [key |-> key, value |-> FALSE]
              /\ refusal' = [refusal EXCEPT ![key] = NoRefusal]
  /\ UNCHANGED <<loginNow, appVars, callVars, hookVars>>

\* Date.now() advances
TimePasses(elapsed) ==
  /\ loginNow + elapsed <= MaxLoginSteps * (windowMs \div 2)
  /\ loginNow' = loginNow + elapsed
  /\ UNCHANGED <<attempts, allowedAt, limited, refusal, appVars, callVars, hookVars>>

LimiterNext ==
  \/ \E key \in LoginKeys : IsLimited(key)
  \/ \E elapsed \in LoginDelays : TimePasses(elapsed)

LimiterSpec == Init /\ [][LimiterNext]_vars

\* ------------------------------------------------------ the backup effect
\* backups.length > 10
maxBackups == 10

\* JSON.stringify(value) as a stored item and JSON.parse of it: the backups
\* are arrays and objects of strings, numbers and booleans, which the text
\* carries unchanged
JSONstringify(value) == [present |-> TRUE, json |-> value]

JSONparse(item) == item.json

\* the slice as it would be when it kept the oldest entries
sliceOldest(array, count) == SubSeq(array, 1, count)

\* array.slice(-count)
sliceLast(array, count) ==
  IF Len(array) > count THEN SubSeq(array, Len(array) - count + 1, Len(array)) ELSE array

\* the useEffect on [subscriptions]: the entries of localStorage after the
\* effect has run for the list subs at clock value at
backupEffect(storage, subs, at) ==
  IF Len(subs) > 0
  THEN LET backup == [version |-> 1, timestamp |-> at,
                      subscriptions |-> subs, count |-> Len(subs)]
           stored == storage[backupsKey]
           parsed == IF stored.present THEN JSONparse(stored) ELSE <<>>
           pushed == Append(parsed, backup)
           backups == IF Len(pushed) > maxBackups THEN sliceLast(pushed, maxBackups)
                      ELSE pushed
       IN  [storage EXCEPT ![backupsKey] = JSONstringify(backups),
                           ![latestKey] = JSONstringify(backup)]
  ELSE storage

\* setSubscriptions(subs), the render and the effects that follow it
SetSubscriptions(subs) ==
  /\ Len(updates) < MaxUpdates
  /\ subscriptions' = subs
  /\ renderedAt' = now
  /\ updates' = Append(updates, subs)
  /\ localStorage' = backupEffect(localStorage, subs, now)
  /\ UNCHANGED <<now, callVars, limiterVars, handlerVars, timerVars>>

\* the list the listener delivers as the n-th update: one subscription whose
\* cost has been edited since the update before
SnapshotOf(n) ==
  << [ id |-> 1, cost |-> 100 * n, billingCycle |-> Monthly,
       nextRenewalDate |-> [y |-> 2025, m |-> 3, d |-> 31],
       category |-> "", isAwaitingCancellation |-> FALSE ] >>

\* onSnapshot's callback: setSubscriptions(subs)
SnapshotDelivered == SetSubscriptions(SnapshotOf(Len(updates) + 1))

\* the effect on [authUser, db] without a user: setSubscriptions([])
SignedOut == SetSubscriptions(<<>>)

BackupNext == SnapshotDelivered \/ SignedOut

BackupSpec == Init /\ [][BackupNext]_vars

\* ------------------------------------------- the useSubscriptions handlers
\* const initialFormData = { ...formData }: a copy, taken at every render, of
\* the formData of that render
initialFormData(renderedFormData) == renderedFormData

\* what the user may have typed into the form: a subscription that passes
\* the validation, and the same with a currency that does not
TypedForms ==
  { [ name |-> [sanitized |-> "Netflix", length |-> 7],
      cost |-> [numeric |-> TRUE, negative |-> FALSE, units |-> 1, thousandths |-> 995,
                junk |-> FALSE],
      currency |-> currency, billingCycle |-> Monthly,
      nextRenewalDate |-> [y |-> 2025, m |-> 3, d |-> 31],
      category |-> [sanitized |-> "Music", length |-> 5],
      isAwaitingCancellation |-> "false" ] : currency \in {"USD", "XXX"} }

\* a stored document as the value of the form fields: handleEditSubscription
\* puts the subscription object itself into formData (a number as cost, a
\* boolean as flag)
AsFormData(sub) ==
  [ name |-> CHOOSE text \in NameTexts : text.sanitized = sub.name,
    cost |-> [numeric |-> TRUE, negative |-> FALSE, units |-> sub.cost \div 100,
              thousandths |-> 10 * (sub.cost % 100), junk |-> FALSE],
    currency |-> sub.currency, billingCycle |-> sub.billingCycle,
    nextRenewalDate |-> sub.nextRenewalDate,
    category |-> IF sub.category = "" THEN EmptyText
                 ELSE [sanitized |-> sub.category, length |-> 5],
    isAwaitingCancellation |-> IF sub.isAwaitingCancellation THEN "true" ELSE "false" ]

\* the documents the collection may hold when the hook is mounted
StoredDoc(id, flag) ==
  [ id |-> id, name |-> "Netflix", cost |-> 200, currency |-> "USD",
    billingCycle |-> Monthly, nextRenewalDate |-> [y |-> 2025, m |-> 3, d |-> 31],
    category |-> "Music", isAwaitingCancellation |-> flag ]

StoredLists == {<<>>} \cup { <<StoredDoc(1, flag)>> : flag \in BOOLEAN }

\* the position in subs of the document with this id (0: there is none)
IndexOfId(subs, id) ==
  IF \E i \in 1..Len(subs) : subs[i].id = id
  THEN CHOOSE i \in 1..Len(subs) : subs[i].id = id
  ELSE 0

\* the id addDoc gives the new document
NewId(subs) == CHOOSE id \in 1..(Len(subs) + 1) : IndexOfId(subs, id) = 0

\* the collection after addDoc(subscriptionsRef, data)
addDoc(subs, data) == insertById(subs, [id |-> NewId(subs)] @@ data)

\* the collection after updateDoc(docRef, data) for an existing document:
\* the fields of data replace those of the document
updateDoc(subs, id, data) ==
  [subs EXCEPT ![IndexOfId(subs, id)] = data @@ subs[IndexOfId(subs, id)]]

\* the user types into the form
SetFormData(data) ==
  /\ formData' = data
  /\ UNCHANGED <<editingId, formErrors, inFlight, lastCall>>
  /\ UNCHANGED <<appVars, callVars, limiterVars, storageVars, timerVars>>

\* handleEditSubscription(subscription)
HandleEditSubscription(i) ==
  /\ i \in 1..Len(subscriptions)
  /\ formData' = AsFormData(subscriptions[i])
  /\ editingId' = [isNull |-> FALSE, id |-> subscriptions[i].id]
  /\ formErrors' = {}
  /\ lastCall' = [handler |-> "handleEditSubscription"]
  /\ UNCHANGED inFlight
  /\ UNCHANGED <<appVars, callVars, limiterVars, storageVars, timerVars>>

\* handleCancelEdit()
HandleCancelEdit ==
  /\ formData' = initialFormData(formData)
  /\ editingId' = null
  /\ formErrors' = {}
  /\ lastCall' = [handler |-> "handleCancelEdit"]
  /\ UNCHANGED inFlight
  /\ UNCHANGED <<appVars, callVars, limiterVars, storageVars, timerVars>>

\* handleAddSubscription() up to its await (or to its return, when the
\* validation fails); the closure holds the formData, the initialFormData and
\* the editingId of the render it was made in
HandleAddSubscription ==
  /\ inFlight = NoWrite
  /\ LET validation == validateSubscription(formData, DateAt(now))
     IN  IF ~validation.valid
         THEN /\ formErrors' = validation.errors
              /\ lastCall' = [handler |-> "handleAddSubscription", write |-> NoWrite,
                              returned |-> [success |-> FALSE, errors |-> validation.errors]]
              /\ UNCHANGED inFlight
         ELSE /\ editingId.isNull => Len(subscriptions) < MaxSubs
              /\ inFlight' = [op |-> IF editingId.isNull THEN "addDoc" ELSE "updateDoc",
                              editingId |-> editingId,
                              data |-> validation.sanitized,
                              initialFormData |-> initialFormData(formData)]
              /\ lastCall' = [handler |-> "handleAddSubscription", write |-> inFlight',
                              returned |-> NotYet]
              /\ UNCHANGED formErrors
  /\ UNCHANGED <<formData, editingId>>
  /\ UNCHANGED <<appVars, callVars, limiterVars, storageVars, timerVars>>

\* the awaited write succeeds: the listener delivers the new snapshot and
\* handleAddSubscription runs to its return { success: true }
WriteSucceeds ==
  /\ inFlight # NoWrite
  /\ subscriptions' = IF inFlight.op = "addDoc" THEN addDoc(subscriptions, inFlight.data)
                      ELSE updateDoc(subscriptions, inFlight.editingId.id, inFlight.data)
  /\ renderedAt' = now
  /\ formData' = inFlight.initialFormData
  /\ editingId' = null
  /\ formErrors' = {}
  /\ inFlight' = NoWrite
  /\ lastCall' = [handler |-> "handleAddSubscription", write |-> inFlight,
                  returned |-> [success |-> TRUE]]
  /\ UNCHANGED <<now, callVars, limiterVars, storageVars, timerVars>>

\* the awaited write is rejected: the catch branch
WriteFails ==
  /\ inFlight # NoWrite
  /\ inFlight' = NoWrite
  /\ lastCall' = [handler |-> "handleAddSubscription", write |-> inFlight,
                  returned |-> [success |-> FALSE, error |-> "error.message"]]
  /\ UNCHANGED <<formData, editingId, formErrors>>
  /\ UNCHANGED <<appVars, callVars, limiterVars, storageVars, timerVars>>

\* handleToggleCancellation(id, isAwaitingCancellation) with the arguments as
\* they are passed: id is a document id or some other object, the flag a
\* JavaScript literal. doc(subscriptionsRef, id) throws for an id that is not
\* a string, and nothing is written.
handleToggleCancellation(subs, id, isAwaitingCancellation) ==
  IF id.type # "string" \/ IndexOfId(subs, id.value) = 0
  THEN [subscriptions |-> subs, write |-> NoWrite, returned |-> [success |-> FALSE]]
  ELSE LET data == [isAwaitingCancellation |-> ~ToBoolean(isAwaitingCancellation)]
       IN  [subscriptions |-> updateDoc(subs, id.value, data),
            write |-> [op |-> "updateDoc", id |-> id.value, data |-> data],
            returned |-> [success |-> TRUE]]

\* a click on a cancellation control of the document at position i, which
\* calls the handler with these arguments
ClickControl(control, i, id, isAwaitingCancellation) ==
  LET done == handleToggleCancellation(subscriptions, id, isAwaitingCancellation)
  IN  /\ subscriptions' = done.subscriptions
      /\ renderedAt' = now
      /\ lastCall' = [handler |-> "handleToggleCancellation", control |-> control,
                      id |-> subscriptions[i].id, write |-> done.write,
                      returned |-> done.returned]
      /\ UNCHANGED <<formData, editingId, formErrors, inFlight>>
      /\ UNCHANGED <<now, callVars, limiterVars, storageVars, timerVars>>

\* the table's button: onClick={() => onToggleCancellation(sub)}
ClickMarkForCancellation(i) ==
  /\ i \in 1..Len(subscriptions)
  /\ ClickControl("Mark for cancellation", i,
                  [type |-> "object", value |-> subscriptions[i]], "undefined")

\* the pending list's button:
\* onClick={() => handleToggleCancellation(sub.id, !sub.isAwaitingCancellation)}
ClickRestore(i) ==
  /\ i \in 1..Len(subscriptions)
  /\ subscriptions[i].isAwaitingCancellation
  /\ ClickControl("Restore", i,
                  [type |-> "string", value |-> subscriptions[i].id],
                  IF ~subscriptions[i].isAwaitingCancellation THEN "true" ELSE "false")

HandlerInit ==
  /\ subscriptions \in StoredLists
  /\ now = StartNow
  /\ renderedAt = StartNow
  /\ call = NoCall
  /\ result = NoResult
  /\ attempts = [key \in LoginKeys |-> <<>>]
  /\ loginNow = 0
  /\ allowedAt = [key \in LoginKeys |-> <<>>]
  /\ limited = [key |-> "", value |-> FALSE]
  /\ refusal = [key \in LoginKeys |-> NoRefusal]
  /\ HooksMounted

HandlerNext ==
  \/ \E data \in TypedForms \cup {useStateFormData} : SetFormData(data)
  \/ \E i \in 1..MaxSubs : HandleEditSubscription(i)
  \/ HandleCancelEdit
  \/ HandleAddSubscription
  \/ WriteSucceeds
  \/ WriteFails
  \/ \E i \in 1..MaxSubs : ClickMarkForCancellation(i)
  \/ \E i \in 1..MaxSubs : ClickRestore(i)

HandlerSpec == HandlerInit /\ [][HandlerNext]_vars

\* --------------------------------------------- the debounce utilities

\* what the search field may hold
SearchTerms == {"", "n", "ne"}

\* a timer whose time has come; its callback runs before anything else does
Due(handler) == handler.set /\ handler.due <= clock

NoneDue == ~Due(debounceHandler) /\ ~Due(throttleHandler) /\ ~Due(timeoutId)

\* an input event with the field holding value: setSearchTerm(value), and
\* the debounced function of debounce(func, delay) called with value. When
\* value differs from searchTerm the hooks render, the cleanup of each effect
\* clears its timer and the effect sets a new one.
Input(value) ==
  /\ NoneDue
  /\ Len(typed) < MaxKeys
  /\ typed' = Append(typed, [value |-> value, at |-> clock])
  /\ timeoutId' = restartTimeout(timeoutId, value, clock, delay)
  /\ IF value # searchTerm
     THEN /\ searchTerm' = value
          /\ changedAt' = clock
          /\ debounceHandler' = restartTimeout(debounceHandler, value, clock, delay)
          /\ throttleHandler' = restartTimeout(throttleHandler, value, clock, limit)
     ELSE UNCHANGED <<searchTerm, changedAt, debounceHandler, throttleHandler>>
  /\ UNCHANGED <<clock, debouncedValue, throttledValue, invoked, throttledAt>>
  /\ UNCHANGED <<appVars, callVars, limiterVars, storageVars, handlerVars>>

\* the timer of useDebounce fires: setDebouncedValue(value)
DebounceTimeout ==
  /\ Due(debounceHandler)
  /\ debouncedValue' = debounceHandler.value
  /\ debounceHandler' = NoTimer
  /\ UNCHANGED <<clock, searchTerm, throttledValue, throttleHandler, timeoutId, invoked,
                 typed, changedAt, throttledAt>>
  /\ UNCHANGED <<appVars, callVars, limiterVars, storageVars, handlerVars>>

\* the timer of useThrottle fires: setThrottledValue(value)
ThrottleTimeout ==
  /\ Due(throttleHandler)
  /\ throttledValue' = throttleHandler.value
  /\ throttledAt' = clock
  /\ throttleHandler' = NoTimer
  /\ UNCHANGED <<clock, searchTerm, debouncedValue, debounceHandler, timeoutId, invoked,
                 typed, changedAt>>
  /\ UNCHANGED <<appVars, callVars, limiterVars, storageVars, handlerVars>>

\* the timer of debounce(func, delay) fires: func(...args)
FuncTimeout ==
  /\ Due(timeoutId)
  /\ invoked' = Append(invoked, [args |-> timeoutId.value, at |-> clock])
  /\ timeoutId' = NoTimer
  /\ UNCHANGED <<clock, searchTerm, debouncedValue, debounceHandler, throttledValue,
                 throttleHandler, typed, changedAt, throttledAt>>
  /\ UNCHANGED <<appVars, callVars, limiterVars, storageVars, handlerVars>>

\* the time of the next event: a step from now, or the time of the first
\* pending timer when that is earlier
NextEventAt ==
  LET pending == {handler \in {debounceHandler, throttleHandler, timeoutId} : handler.set}
      times == {clock + TimeStep} \cup {handler.due : handler \in pending}
  IN  CHOOSE at \in times : \A other \in times : at <= other

\* time passes while no timer is due
ClockTick ==
  /\ NoneDue
  /\ clock < MaxClockTicks * TimeStep
  /\ clock' = NextEventAt
  /\ UNCHANGED <<searchTerm, debouncedValue, debounceHandler, throttledValue, throttleHandler,
                 timeoutId, invoked, typed, changedAt, throttledAt>>
  /\ UNCHANGED <<appVars, callVars, limiterVars, storageVars, handlerVars>>

TimerNext ==
  \/ \E value \in SearchTerms : Input(value)
  \/ DebounceTimeout
  \/ ThrottleTimeout
  \/ FuncTimeout
  \/ ClockTick

TimerSpec == Init /\ [][TimerNext]_vars

\* ---------------------------------------------------------------- claims
\* What the claims speak of, stated without the loops of the code.

KnownCycles == {Monthly, Quarterly, Annually}

\* the new Date() of the last computation of the aggregates
referenceDate == DateAt(renderedAt)

RECURSIVE SumOver(_, _)
SumOver(S, f) ==
  IF S = {} THEN 0
  ELSE LET x == CHOOSE x \in S : TRUE IN f[x] + SumOver(S \ {x}, f)

\* the indexes of the active and of the cancellation-pending subscriptions
ActiveIdx == {i \in 1..Len(subscriptions) : ~subscriptions[i].isAwaitingCancellation}

PendingIdx == {i \in 1..Len(subscriptions) : subscriptions[i].isAwaitingCancellation}

\* the k for which anchor + k * days lies in the closed window [from, to]
OccurrencesIn(anchor, days, from, to) ==
  IF ~anchor.valid \/ anchor.time > to.time THEN {}
  ELSE {k \in 0..((to.time - anchor.time) \div (days * DayTicks)) :
          /\ from.time <= anchor.time + k * days * DayTicks
          /\ anchor.time + k * days * DayTicks <= to.time}

\* P of the spec: 30 days for Monthly, 90 for Quarterly, 365 for Annually
Period(cycle) ==
  CASE cycle = Monthly -> 30 [] cycle = Quarterly -> 90 [] cycle = Annually -> 365

\* the monthly-equivalent rate of the spec (section 4.1)
MonthlyEquivalent(cost, cycle) ==
  CASE cycle = Monthly -> Amount(cost)
    [] cycle = Quarterly -> Amount(cost) \div 3
    [] cycle = Annually -> Amount(cost) \div 12
    [] OTHER -> Amount(cost)

\* C1: totalMonthlyCost is the sum of the monthly-equivalent rates of exactly
\* the subscriptions that are not cancellation-pending.
C1_TotalMonthlyCostOverActive ==
  analytics.totalMonthlyCost =
    SumOver(ActiveIdx, [i \in ActiveIdx |->
      MonthlyEquivalent(subscriptions[i].cost, subscriptions[i].billingCycle)])

\* occurrences of a subscription in the 12-month window, times its raw cost
DebtShare(sub) ==
  Cardinality(OccurrencesIn(ParseDate(sub.nextRenewalDate), cycleInDays(sub.billingCycle),
                            referenceDate, AddDays(referenceDate, 365)))
    * Amount(sub.cost)

C3_RenewalCountIsWindowCount ==
  \A i \in 1..Len(subscriptions) :
    LET sub == subscriptions[i]
        anchor == ParseDate(sub.nextRenewalDate)
        count == renewalsOf[sub][renderedAt]
    IN  /\ sub.billingCycle \in KnownCycles =>
             count = Cardinality(OccurrencesIn(anchor, Period(sub.billingCycle),
                                               referenceDate, AddDays(referenceDate, 365)))
        /\ (anchor.valid /\ anchor.time > AddDays(referenceDate, 365).time) => count = 0

\* a subscription anchored in the past whose later occurrences are counted,
\* next to one anchored after the window end
C3_Witness ==
  /\ \E i \in 1..Len(subscriptions) :
       LET sub == subscriptions[i]
           anchor == ParseDate(sub.nextRenewalDate)
       IN  /\ sub.billingCycle \in KnownCycles
           /\ anchor.valid /\ anchor.time < referenceDate.time
           /\ renewalsOf[sub][renderedAt] > 0
  /\ \E i \in 1..Len(subscriptions) :
       LET anchor == ParseDate(subscriptions[i].nextRenewalDate)
       IN  anchor.valid /\ anchor.time > AddDays(referenceDate, 365).time

\* C4: each of the three monthly-rate computations (the hook's, the App's, the
\* one inlined in EnhancedAnalytics) gives cost for Monthly, cost / 3 for
\* Quarterly, cost / 12 for Annually and cost for any other billing cycle.
C4_EveryRateDefaultsToMonthly ==
  \A i \in 1..Len(subscriptions) :
    LET sub == subscriptions[i]
        expected == MonthlyEquivalent(sub.cost, sub.billingCycle)
    IN  /\ calculateMonthlyRate(sub.cost, sub.billingCycle) = expected
        /\ App_calculateMonthlyRate(sub.cost, sub.billingCycle) = expected
        /\ inlineMonthlyRate(sub.cost, sub.billingCycle) = expected

\* the list with every billing cycle outside the enum replaced by Monthly
AsMonthly(subs) ==
  [i \in 1..Len(subs) |->
     IF subs[i].billingCycle \in KnownCycles THEN subs[i]
     ELSE [subs[i] EXCEPT !.billingCycle = Monthly]]

\* C5: a subscription with a billing cycle outside the enum is treated by every
\* aggregate exactly as the same subscription with cycle Monthly.
C5_UnknownCycleActsAsMonthly ==
  LET asMonthly == useAnalytics(AsMonthly(subscriptions), referenceDate)
  IN  /\ analytics.totalMonthlyCost = asMonthly.totalMonthlyCost
      /\ analytics.totalDebt12Months = asMonthly.totalDebt12Months
      /\ analytics.cancellationDebt = asMonthly.cancellationDebt
      /\ analytics.monthlyTrendData = asMonthly.monthlyTrendData

\* the list without the subscriptions whose nextRenewalDate does not parse
ParseableOnly(subs) == SelectSeq(subs, LAMBDA sub : ParseDate(sub.nextRenewalDate).valid)

\* C6: a subscription whose nextRenewalDate cannot be parsed never appears in
\* upcomingRenewals and adds nothing to any month of monthlyTrendData.
C6_UnparseableDateExcluded ==
  /\ \A k \in 1..Len(analytics.upcomingRenewals) :
       ParseDate(analytics.upcomingRenewals[k].nextRenewalDate).valid
  /\ analytics.monthlyTrendData = monthlyTrendData(ParseableOnly(subscriptions), referenceDate)

\* the n-th trend month (n = 1 for the month of the reference date), as a
\* count of months since year 0
TrendMonth(n) == 12 * GetFullYear(referenceDate) + GetMonth(referenceDate) + (n - 1)

\* first and last day (both at 00:00) of the n-th trend month
TrendMonthStart(n) ==
  DateAt(DayTicks * DaysFromCivil(TrendMonth(n) \div 12, (TrendMonth(n) % 12) + 1, 1))

TrendMonthEnd(n) ==
  LET y == TrendMonth(n) \div 12
      m == (TrendMonth(n) % 12) + 1
  IN  DateAt(DayTicks * DaysFromCivil(y, m, DaysInMonth(y, m)))

\* number of fixed-period occurrences of sub inside the n-th trend month
OccurrencesInMonth(sub, n) ==
  Cardinality(OccurrencesIn(ParseDate(sub.nextRenewalDate), Period(sub.billingCycle),
                            TrendMonthStart(n), TrendMonthEnd(n)))

\* the cases C7 speaks of: at least one occurrence in the month, or Monthly
CoveredByC7(sub, n) ==
  /\ sub.billingCycle \in KnownCycles
  /\ OccurrencesInMonth(sub, n) >= 1 \/ sub.billingCycle = Monthly

ContributionC7(sub, n) ==
  IF OccurrencesInMonth(sub, n) >= 1
  THEN OccurrencesInMonth(sub, n) * Amount(sub.cost)
  ELSE Amount(sub.cost)

\* the sum of the C7 contributions of all subscriptions of the list
TotalC7(n) ==
  SumOver(1..Len(subscriptions),
          [i \in 1..Len(subscriptions) |-> ContributionC7(subscriptions[i], n)])

AllCoveredByC7(n) == \A i \in 1..Len(subscriptions) : CoveredByC7(subscriptions[i], n)

\* the trend computed by the hook sums the contributions of every
\* subscription, cancellation-pending or not
HookTrendSumsAll ==
  \A n \in 1..12 :
    AllCoveredByC7(n) => analytics.monthlyTrendData[n].cost = TotalC7(n)

\* so does the trend shown by EnhancedAnalytics
ShownTrendSumsAll ==
  \A n \in 1..12 :
    (dashboard.enhancedShown /\ AllCoveredByC7(n)) =>
      dashboard.monthlyTrendData[n].cost = TotalC7(n)

\* C7: in each of the 12 trend months a subscription with k >= 1 occurrences
\* in the month contributes k x cost, a Monthly one without occurrence its
\* full cost, and the month's total is the sum over all subscriptions of the
\* list, cancellation-pending ones included, in the hook's trend and in the
\* trend the App hands to EnhancedAnalytics.
C7_TrendSumsEverySubscription == HookTrendSumsAll /\ ShownTrendSumsAll

\* calendar month (counted from year 0) of a valid date
MonthOf(date) == 12 * GetFullYear(date) + GetMonth(date)

\* "within 3 months of the anchor": not later than the second month after the
\* anchor's month, and not more than 3 months before it
WithinThreeMonths(n, anchor) ==
  /\ anchor.valid
  /\ MonthOf(anchor) - 3 <= TrendMonth(n)
  /\ TrendMonth(n) <= MonthOf(anchor) + 2

ContributionC8(sub, n) ==
  LET anchor == ParseDate(sub.nextRenewalDate)
  IN  IF OccurrencesInMonth(sub, n) >= 1 THEN OccurrencesInMonth(sub, n) * Amount(sub.cost)
      ELSE IF sub.billingCycle = Monthly THEN Amount(sub.cost)
      ELSE IF sub.billingCycle = Quarterly
           THEN (IF WithinThreeMonths(n, anchor) THEN Amount(sub.cost) \div 3 ELSE 0)
      ELSE IF anchor.valid /\ GetFullYear(anchor) = TrendMonth(n) \div 12
           THEN Amount(sub.cost) \div 12
      ELSE 0

\* C8: without an occurrence in the month, a Quarterly subscription adds
\* cost / 3 when the month is within 3 months of the anchor and nothing
\* otherwise, an Annually one cost / 12 when the month is in the anchor's
\* calendar year and nothing otherwise.
C8_FallbackShares ==
  \A n \in 1..12 :
    (\A i \in 1..Len(subscriptions) : subscriptions[i].billingCycle \in KnownCycles) =>
      analytics.monthlyTrendData[n].cost =
        ToFixed2(SumOver(1..Len(subscriptions),
                         [i \in 1..Len(subscriptions) |->
                            ContributionC8(subscriptions[i], n)]))

RenewsWithin30Days(sub) ==
  OccurrencesIn(ParseDate(sub.nextRenewalDate), cycleInDays(sub.billingCycle),
                referenceDate, AddDays(referenceDate, 30)) # {}

DueSoon ==
  {subscriptions[i] : i \in {j \in ActiveIdx : RenewsWithin30Days(subscriptions[j])}}

IsUpcomingList(list) ==
  /\ {list[k] : k \in 1..Len(list)} = DueSoon
  /\ Len(list) = Cardinality(DueSoon)
  /\ \A k \in 1..(Len(list) - 1) :
       ParseDate(list[k].nextRenewalDate).time <= ParseDate(list[k + 1].nextRenewalDate).time

\* C10: upcomingRenewals holds exactly the subscriptions that are not
\* cancellation-pending and have a billing occurrence in [today, today + 30
\* days], in ascending date order.
C10_UpcomingIsDueSoon ==
  /\ IsUpcomingList(analytics.upcomingRenewals)
  /\ IsUpcomingList(dashboard.upcoming)

\* EnhancedAnalytics is rendered: there is an active subscription
enhancedShown == Len(activeSubscriptions(subscriptions)) > 0

\* the trend handed to EnhancedAnalytics, computed from activeSubscriptions as
\* the top-expensive card left it
shownTrend ==
  getMonthlyTrendData(getTopExpensiveSubscriptions(activeSubscriptions(subscriptions), 5).given,
                      referenceDate)

\* twice the average of the two deltas over the last three points of p
TwiceAvgDelta(p) ==
  (p[Len(p)].cost - p[Len(p) - 1].cost) + (p[Len(p) - 1].cost - p[Len(p) - 2].cost)

\* the first n entries carry the trend as actual, the last three carry no actual
ForecastShape(p, f) ==
  /\ Len(f) = Len(p) + 3
  /\ \A k \in 1..Len(p) :
       f[k].actualSpending = Num(p[k].cost) /\ f[k].forecastSpending = Null
  /\ \A i \in 1..3 :
       f[Len(p) + i].actualSpending = Null /\ ~f[Len(p) + i].forecastSpending.isNull

Abs(x) == IF x < 0 THEN 0 - x ELSE x

\* calculateForecast on the first n points of trend: the shape, and each
\* forecast equal to lastCost + avgDelta x i (exact), or a whole number of
\* cents at most half a cent away from it
ForecastFollows(trend, n, exact) ==
  LET p == SubSeq(trend, 1, n)
      f == calculateForecast(p, referenceDate)
      last == p[n].cost
      delta == TwiceAvgDelta(p)
  IN  /\ ForecastShape(p, f)
      /\ \A i \in 1..3 :
           LET v == f[n + i].forecastSpending.value
           IN  IF exact THEN 2 * v = 2 * last + delta * i
               ELSE v % 12 = 0 /\ Abs(2 * v - (2 * last + delta * i)) <= 12

\* C13 (amended): for a trend of n >= 3 points calculateForecast returns n + 3
\* entries; the first n carry the trend costs as actual with forecast null;
\* exactly the last 3 carry actual null and forecast = lastCost + avgDelta x i
\* rounded to 2 decimals (a whole number of cents, at most half a cent away),
\* i = 1, 2, 3, avgDelta being the average of the two deltas over the last
\* three points; the values are not clamped.
C13_ForecastRoundedToCents ==
  enhancedShown =>
    LET trend == shownTrend IN \A n \in 3..12 : ForecastFollows(trend, n, FALSE)

\* C13 as stated: the forecast is lastCost + avgDelta x i itself.
C13_ForecastExact ==
  enhancedShown =>
    LET trend == shownTrend IN \A n \in 3..12 : ForecastFollows(trend, n, TRUE)

\* the panel shows a forecast that falls below zero and one that rises
C13_Witness ==
  /\ enhancedShown
  /\ LET trend == shownTrend
          forecast == calculateForecast(trend, referenceDate)
      IN  /\ Len(forecast) = 15
          /\ forecast[15].forecastSpending.value < 0
          /\ \E n \in 3..11 :
               calculateForecast(SubSeq(trend, 1, n), referenceDate)[n + 3].forecastSpending.value
                 > trend[n].cost

\* the windows the code counts occurrences in when today = t: the 12 months
\* ahead, the next 30 days, each month of the trend, and the span from the
\* start of the current month to the 12-month horizon
WindowsAt(t) ==
  { [from |-> DateAt(t), to |-> AddDays(DateAt(t), 365)],
    [from |-> DateAt(t), to |-> AddDays(DateAt(t), 30)],
    [from |-> monthDateOf(DateAt(t), 0), to |-> AddDays(DateAt(t), 365)] }
  \cup { [from |-> monthDateOf(DateAt(t), n - 1),
          to |-> MakeDate(GetFullYear(monthDateOf(DateAt(t), n - 1)),
                          GetMonth(monthDateOf(DateAt(t), n - 1)) + 1, 0)] : n \in 1..12 }

\* [w1.from, w1.to] is contained in [w2.from, w2.to]
Within(w1, w2) == w2.from.time <= w1.from.time /\ w1.to.time <= w2.to.time

\* the walk of the code from the anchor of sub, counting inside w
CountIn(sub, w) ==
  renewalsLoop(ParseDate(sub.nextRenewalDate), w.from, w.to, cycleInDays(sub.billingCycle), 0)

\* CountIn for every document, clock value and window of a run
countInWindow ==
  Tabulate([sub \in Docs |-> Tabulate([t \in Clock |-> Tabulate([w \in WindowsAt(t) |->
     CountIn(sub, w)])])])

\* the trend's own loop counts the same occurrences in every window, for
\* every document and clock value of a run
monthLoopAgrees ==
  Tabulate([sub \in Docs |-> Tabulate([t \in Clock |->
     \A w \in WindowsAt(t) :
       monthLoop(ParseDate(sub.nextRenewalDate), w.from, w.to,
                 cycleInDays(sub.billingCycle), 0) = countInWindow[sub][t][w]])])

\* the count of sub never decreases from a window to one that contains it,
\* for every document and clock value of a run
widerCountsMore ==
  Tabulate([sub \in Docs |-> Tabulate([t \in Clock |->
     \A w1, w2 \in WindowsAt(t) :
       Within(w1, w2) => countInWindow[sub][t][w2] >= countInWindow[sub][t][w1]])])

\* C15: for a fixed anchor date and billing cycle, widening the window never
\* decreases the occurrence count: if [s1, e1] is contained in [s2, e2] then
\* the count for [s2, e2] is at least the count for [s1, e1].
C15_WiderWindowCountsMore ==
  \A i \in 1..Len(subscriptions) :
    /\ monthLoopAgrees[subscriptions[i]][renderedAt]
    /\ widerCountsMore[subscriptions[i]][renderedAt]

\* a subscription with occurrences in a window and more of them in a wider one
C15_Witness ==
  \E i \in 1..Len(subscriptions) :
    \E w1, w2 \in WindowsAt(renderedAt) :
      /\ Within(w1, w2)
      /\ w1 # w2
      /\ countInWindow[subscriptions[i]][renderedAt][w1] > 0
      /\ countInWindow[subscriptions[i]][renderedAt][w2]
           > countInWindow[subscriptions[i]][renderedAt][w1]

\* the list without its i-th element
Without(subs, i) == SubSeq(subs, 1, i - 1) \o SubSeq(subs, i + 1, Len(subs))

\* the active Annually subscriptions that renew after the reference date and
\* at most 365 days after it
AnnualDueIdx ==
  { i \in ActiveIdx :
      /\ subscriptions[i].billingCycle = Annually
      /\ ParseDate(subscriptions[i].nextRenewalDate).valid
      /\ ParseDate(subscriptions[i].nextRenewalDate).time > referenceDate.time
      /\ ParseDate(subscriptions[i].nextRenewalDate).time
           <= AddDays(referenceDate, 365).time }

\* the scenario of the spec: cost 12.00, Annually, renewing 2025-01-15, seen
\* at any time of day on 2025-01-01; and the same subscription renewing 1 day
\* and 365 days after the reference day
ScenarioC16 ==
  \A tick \in 0..(DayTicks - 1) :
    LET ref == DateAt(DayTicks * DaysFromCivil(2025, 1, 1) + tick)
        renewals(date) == calculateRenewalsInNext12Months(date, Annually, ref)
    IN  /\ calculateMonthlyRate(1200, Annually) = Amount(100)
        /\ renewals([y |-> 2025, m |-> 1, d |-> 15]) * Amount(1200) = Amount(1200)
        /\ renewals([y |-> 2025, m |-> 1, d |-> 2]) = 1
        /\ renewals([y |-> 2026, m |-> 1, d |-> 1]) = 1

ActiveOf(subs) == {i \in 1..Len(subs) : ~subs[i].isAwaitingCancellation}

\* list is the category breakdown of the active subscriptions of subs
IsBreakdownOfActive(list, subs) ==
  LET names == {categoryOf(subs[i]) : i \in ActiveOf(subs)}
      rate == [i \in 1..Len(subs) |-> MonthlyEquivalent(subs[i].cost, subs[i].billingCycle)]
      members(name) == {i \in ActiveOf(subs) : categoryOf(subs[i]) = name}
  IN  /\ {list[k].name : k \in 1..Len(list)} = names
      /\ Len(list) = Cardinality(names)
      /\ \A k \in 1..Len(list) : list[k].value = ToFixed2(SumOver(members(list[k].name), rate))
      /\ \A k \in 1..(Len(list) - 1) : list[k].value >= list[k + 1].value

\* C11: categoryBreakdown groups only the subscriptions that are not
\* cancellation-pending by category (a falsy category is "Uncategorized"),
\* gives each group the sum of its members' monthly-equivalent rates rounded
\* to 2 decimals, has one entry per category present, and is sorted by value
\* in descending order; so for the hook's list and for the App's chart.
C11_CategoryBreakdownOfActive ==
  /\ (call.fn = "useAnalytics" /\ result.done)
       => IsBreakdownOfActive(result.value.categoryBreakdown, call.subs)
  /\ (call.fn = "App" /\ result.done)
       => IsBreakdownOfActive(result.value.categoryChart, call.subs)

\* the share of C11 that the code keeps: the App's chart, which is handed
\* the active subscriptions
C11_AppChartOfActive ==
  (call.fn = "App" /\ result.done)
    => IsBreakdownOfActive(result.value.categoryChart, call.subs)

\* list (rows with an id and a monthly-equivalent rate) is the top five of
\* the active subscriptions of subs by monthly-equivalent rate
IsTopFiveOfActive(ids, subs) ==
  LET active == ActiveOf(subs)
      rate(i) == MonthlyEquivalent(subs[i].cost, subs[i].billingCycle)
      idxOf(id) == CHOOSE i \in 1..Len(subs) : subs[i].id = id
  IN  /\ Len(ids) = (IF Cardinality(active) < 5 THEN Cardinality(active) ELSE 5)
      /\ \A k \in 1..Len(ids) : \E i \in active : subs[i].id = ids[k]
      /\ \A k, l \in 1..Len(ids) : k # l => ids[k] # ids[l]
      /\ \A k \in 1..(Len(ids) - 1) : rate(idxOf(ids[k])) >= rate(idxOf(ids[k + 1]))
      /\ \A i \in active :
           (\A k \in 1..Len(ids) : ids[k] # subs[i].id)
             => \A k \in 1..Len(ids) : rate(i) <= rate(idxOf(ids[k]))

IdsOf(list) == [k \in 1..Len(list) |-> list[k].id]

\* the hook's topExpensiveSubscriptions is the top five by monthly rate
HookTopFive ==
  (call.fn = "useAnalytics" /\ result.done)
    => IsTopFiveOfActive(IdsOf(result.value.topExpensiveSubscriptions), call.subs)

\* the App's top-expensive card is the top five by monthly rate
AppTopFive ==
  (call.fn = "App" /\ result.done)
    => IsTopFiveOfActive(IdsOf(result.value.topExpensive), call.subs)

\* C12: topExpensiveSubscriptions is the first min(5, number of active)
\* elements of the subscriptions that are not cancellation-pending, ordered
\* descending by monthly-equivalent rate, and no subscription outside it has
\* a strictly higher rate than one inside it; in the hook and in the App.
C12_TopFiveByMonthlyRate == HookTopFive /\ AppTopFive

\* C14: no analytics computation changes the list it is given: after the
\* call the array holds the same records in the same order.
C14_InputListUnchanged ==
  /\ (call.fn = "useAnalytics" /\ result.done) => result.value.given = call.subs
  /\ (call.fn = "App" /\ result.done) => result.value.given = result.value.passed

\* C17: for every list, records whose isAwaitingCancellation is missing or
\* not a boolean included, the active set and the pending-cancellation set
\* are disjoint and together cover the list:
\* activeCount + cancellationCount = totalCount.
C17_ActiveAndPendingPartition ==
  (call.fn = "statistics" /\ result.done) =>
    LET st == result.value
        activeIds == {st.active[k].id : k \in 1..Len(st.active)}
        awaitingIds == {st.awaiting[k].id : k \in 1..Len(st.awaiting)}
    IN  /\ activeIds \cap awaitingIds = {}
        /\ activeIds \cup awaitingIds = 1..Len(call.subs)
        /\ st.totalCount = Len(call.subs)
        /\ st.activeCount + st.cancellationCount = st.totalCount

\* statistics of a list with a document that lacks the flag and one whose
\* flag is a string
C17_Witness ==
  /\ call.fn = "statistics"
  /\ result.done
  /\ \E i, j \in 1..Len(call.subs) :
       /\ call.subs[i].isAwaitingCancellation = "undefined"
       /\ call.subs[j].isAwaitingCancellation = "'false'"
  /\ result.value.activeCount = 1
  /\ result.value.cancellationCount = 1

\* text parses to a number n with 0 < n <= 999999
ParsesToCostInRange(text) ==
  /\ ~parseFloat(text).nan
  /\ parseFloat(text).milli > 0
  /\ parseFloat(text).milli <= 999999 * 1000

\* cents is n (in thousandths) rounded to 2 decimals
IsRoundedToCents(cents, milli) == 10 * cents - milli \in (0 - 5)..5

\* validateCost accepts exactly the texts that parse to a cost in range, and
\* returns the cost rounded to 2 decimals, which is at most 999999
ValidateCostAcceptsRange ==
  (call.fn = "validateCost" /\ result.done) =>
    /\ result.value.valid <=> ParsesToCostInRange(call.cost)
    /\ result.value.valid =>
         /\ IsRoundedToCents(result.value.sanitized, parseFloat(call.cost).milli)
         /\ result.value.sanitized <= 999999 * 100

\* every cost validateCost returns is greater than 0
ValidateCostPositive ==
  (call.fn = "validateCost" /\ result.done /\ result.value.valid)
    => result.value.sanitized > 0

\* C18: validateCost accepts exactly the inputs that parse to a number n with
\* 0 < n <= 999999, and every sanitized cost it returns is n rounded to 2
\* decimal places and is itself strictly greater than 0 and at most 999999.
C18_SanitizedCostInRange ==
  /\ ValidateCostAcceptsRange
  /\ ValidateCostPositive
  /\ (call.fn = "validateSubscription" /\ result.done /\ result.value.valid)
       => /\ result.value.sanitized.cost > 0
          /\ result.value.sanitized.cost <= 999999 * 100

\* text is a real date d with (today at 00:00) <= d <= (now + 100 years)
IsDateWithin100Years(text) ==
  LET d == ParseDate(text)
      at == DateAt(now)
      midnight == DayTicks * DayNumber(at)
      latest == MakeDate(GetFullYear(at) + 100, GetMonth(at), GetDate(at)).time
                  + (at.time - midnight)
  IN  d.valid /\ midnight <= d.time /\ d.time <= latest

\* what validateFutureDate does for the strings that are dates: it accepts
\* exactly those between today at 00:00 and now + 100 years
ValidateFutureDateOnRealDates ==
  (call.fn = "validateFutureDate" /\ result.done /\ ParseDate(call.dateString).valid)
    => (result.value.valid <=> IsDateWithin100Years(call.dateString))

\* C20: validateFutureDate returns valid only for a date string that parses
\* to a real date d with (today at 00:00) <= d <= (now + 100 years); a string
\* that does not parse to a date is rejected, so validateSubscription never
\* returns a sanitized record whose nextRenewalDate is unparseable.
C20_OnlyRealFutureDatesPass ==
  /\ (call.fn = "validateFutureDate" /\ result.done /\ result.value.valid)
       => IsDateWithin100Years(call.dateString)
  /\ (call.fn = "validateSubscription" /\ result.done /\ result.value.valid)
       => ParseDate(result.value.sanitized.nextRenewalDate).valid

\* ------------------------------------------------ claims on the limiter
\* any maxAttempts + 1 calls for one key that returned false span at least
\* windowMs
NoBurst ==
  \A key \in LoginKeys :
    \A i \in 1..Len(allowedAt[key]) :
      i + maxAttempts <= Len(allowedAt[key])
        => allowedAt[key][i + maxAttempts] - allowedAt[key][i] >= windowMs

\* a step changes what is recorded for a key only if it is a call for it
OwnKeyOnly ==
  \A key \in LoginKeys :
    (attempts'[key] # attempts[key] \/ allowedAt'[key] # allowedAt[key])
      => limited'.key = key

\* the outcome of a call depends on the calls for its own key only: what is
\* kept for a key is its own allowed calls of the window ending at the last
\* of them
OwnHistoryOnly ==
  \A key \in LoginKeys :
    attempts[key] =
      IF allowedAt[key] = <<>> THEN <<>>
      ELSE validAttempts(allowedAt[key], allowedAt[key][Len(allowedAt[key])])

\* C19: the login rate limiter allows at most 5 attempts per key in any
\* 5-minute window: no interval shorter than windowMs holds more than
\* maxAttempts isLimited calls for one key that returned false, and calls for
\* one key never change the outcome for another key.
C19_AtMostFivePerWindow == [](NoBurst /\ OwnHistoryOnly) /\ [][OwnKeyOnly]_vars

\* a key is refused 1 ms before the window of its five allowed calls ends,
\* while the other key has been let in
C19_Witness ==
  \E key \in LoginKeys :
    /\ Len(allowedAt[key]) = maxAttempts
    /\ loginNow - allowedAt[key][1] = windowMs - 1
    /\ limited = [key |-> key, value |-> TRUE]
    /\ \E other \in LoginKeys \ {key} : Len(allowedAt[other]) > 0

\* the time at which the last refusal of key said the lockout ends
ReleaseTime(key) == refusal[key].at + refusal[key].remainingTime

\* this step is a sign-in for key
SignIn(key) ==
  /\ limited'.key = key
  /\ limited' # limited \/ refusal' # refusal \/ attempts' # attempts

\* what a refusal tells is more than 0 and at most windowMs, and from the
\* time it names on isLimited(key) returns false
RefusalNamesRelease ==
  \A key \in LoginKeys :
    refusal[key].refused =>
      /\ refusal[key].remainingTime > 0
      /\ refusal[key].remainingTime <= windowMs
      /\ loginNow >= ReleaseTime(key) =>
           Len(validAttempts(attempts[key], loginNow)) < maxAttempts

\* a refused sign-in records nothing, and does not move the release time
\* named by an earlier refusal of the same lockout
RefusalRecordsNothing ==
  \A key \in LoginKeys :
    (SignIn(key) /\ limited'.value) =>
      /\ attempts' = attempts
      /\ allowedAt' = allowedAt
      /\ refusal[key].refused =>
           refusal'[key].at + refusal'[key].remainingTime = ReleaseTime(key)

\* a sign-in at or after the release time is let in
LetInAtRelease ==
  \A key \in LoginKeys :
    (SignIn(key) /\ refusal[key].refused /\ loginNow >= ReleaseTime(key)) =>
      ~limited'.value

\* C24: if isLimited(key) returns true at time t then getRemainingTime(key)
\* at t is greater than 0 and at most windowMs, the rejected call leaves the
\* recorded attempts unchanged, and the first isLimited(key) call at any time
\* >= t + that remaining time returns false, however many rejected calls
\* happened in between: rejected attempts never extend the lockout.
C24_LockoutEndsWhenTold ==
  []RefusalNamesRelease /\ [][RefusalRecordsNothing /\ LetInAtRelease]_vars

\* a key was refused some time after its fifth allowed call, and the time
\* that refusal named has come
C24_Witness ==
  \E key \in LoginKeys :
    /\ refusal[key].refused
    /\ Len(allowedAt[key]) = maxAttempts
    /\ refusal[key].at > allowedAt[key][maxAttempts]
    /\ loginNow >= ReleaseTime(key)

\* ------------------------------------------------ claims on the backups
\* the non-empty lists among the updates, oldest first
NonEmptyUpdates == SelectSeq(updates, LAMBDA subs : subs # <<>>)

\* the most recent maxBackups of them
RecentUpdates ==
  SubSeq(NonEmptyUpdates,
         IF Len(NonEmptyUpdates) > maxBackups THEN Len(NonEmptyUpdates) - maxBackups + 1 ELSE 1,
         Len(NonEmptyUpdates))

\* the array held by 'subscriptions_backups' (none before the first backup)
StoredBackups ==
  IF localStorage[backupsKey].present THEN JSONparse(localStorage[backupsKey]) ELSE <<>>

BackupsAreRecentUpdates ==
  /\ Len(StoredBackups) <= maxBackups
  /\ Len(StoredBackups) = Len(RecentUpdates)
  /\ \A k \in 1..Len(StoredBackups) :
       /\ StoredBackups[k].subscriptions = RecentUpdates[k]
       /\ StoredBackups[k].count = Len(RecentUpdates[k])
  /\ IF RecentUpdates = <<>>
     THEN localStorage[latestKey] = NoItem /\ localStorage[backupsKey] = NoItem
     ELSE /\ localStorage[latestKey].present
          /\ JSONparse(localStorage[latestKey]) = StoredBackups[Len(StoredBackups)]

EmptyUpdateWritesNothing ==
  (updates' # updates /\ subscriptions' = <<>>) => localStorage' = localStorage

FlagOf(subs, id) == subs[IndexOfId(subs, id)].isAwaitingCancellation

\* this step is a click on a cancellation control
ControlClicked ==
  /\ lastCall'.handler = "handleToggleCancellation"
  /\ lastCall' # lastCall \/ subscriptions' # subscriptions

\* C22: activating a cancellation control for a subscription ('Mark for
\* cancellation' in the table, 'Restore' in the pending list) writes the
\* negation of that subscription's current isAwaitingCancellation to its
\* document: a marked subscription becomes pending, a restored one active.
C22_ControlNegatesFlag ==
  [][ControlClicked =>
       /\ lastCall'.write =
            [op |-> "updateDoc", id |-> lastCall'.id,
             data |-> [isAwaitingCancellation |-> ~FlagOf(subscriptions, lastCall'.id)]]
       /\ FlagOf(subscriptions', lastCall'.id) = ~FlagOf(subscriptions, lastCall'.id)]_vars

\* the handler itself, called with a document id and that document's flag,
\* writes the negated flag to that document and to no other
HandlerNegatesFlag ==
  \A i \in 1..Len(subscriptions) :
    LET sub == subscriptions[i]
        done == handleToggleCancellation(
                  subscriptions, [type |-> "string", value |-> sub.id],
                  IF sub.isAwaitingCancellation THEN "true" ELSE "false")
    IN  done.subscriptions =
          [subscriptions EXCEPT ![i].isAwaitingCancellation = ~sub.isAwaitingCancellation]

\* this step is handleAddSubscription being called
SubmitStep ==
  /\ inFlight = NoWrite
  /\ lastCall'.handler = "handleAddSubscription"
  /\ lastCall' # lastCall \/ formErrors' # formErrors \/ inFlight' # inFlight

\* this step is the awaited write being settled
SettleStep == inFlight # NoWrite /\ inFlight' = NoWrite

RejectedSubmit ==
  LET validation == validateSubscription(formData, DateAt(now))
  IN  (SubmitStep /\ ~validation.valid) =>
        /\ lastCall'.write = NoWrite
        /\ inFlight' = NoWrite
        /\ subscriptions' = subscriptions
        /\ lastCall'.returned = [success |-> FALSE, errors |-> validation.errors]
        /\ formErrors' = validation.errors
        /\ formData' = formData
        /\ editingId' = editingId

\* neither the call up to its await nor a failed write touches the form
KeptUntilSuccess ==
  /\ SubmitStep => formData' = formData /\ editingId' = editingId
  /\ (SettleStep /\ lastCall'.returned.success = FALSE) =>
       /\ subscriptions' = subscriptions
       /\ formData' = formData
       /\ editingId' = editingId

ResetOnSuccess ==
  (SettleStep /\ lastCall'.returned.success = TRUE) =>
    /\ formData' = useStateFormData
    /\ editingId' = null

\* C23: when validateSubscription rejects the form data handleAddSubscription
\* issues no Firestore write, returns {success: false, errors}, sets
\* formErrors to those errors and leaves formData and editingId unchanged;
\* formData is reset to the initial form and editingId cleared only after a
\* write has succeeded; a failed write returns success false and keeps
\* formData and editingId.
C23_FormResetOnlyAfterWrite ==
  [][RejectedSubmit /\ KeptUntilSuccess /\ ResetOnSuccess]_vars

\* everything C23 says except the reset of formData holds
FormKeptAndIdCleared ==
  [][/\ RejectedSubmit
     /\ KeptUntilSuccess
     /\ (SettleStep /\ lastCall'.returned.success = TRUE) => editingId' = null]_vars

\* ------------------------------------------------- claims on the timers
\* the inputs so far, each with its place in the history
IndexedInputs == [i \in 1..Len(typed) |-> [i |-> i, value |-> typed[i].value, at |-> typed[i].at]]

\* the input closes a burst: no other input follows it within delay
ClosesBurst(input) ==
  \/ input.i = Len(typed)
  \/ typed[input.i + 1].at - input.at >= delay

\* the invocations that the bursts closed before the time at call for
InvocationsDue(at) ==
  LET Closed(input) == ClosesBurst(input) /\ input.at + delay <= at
      ends == SelectSeq(IndexedInputs, Closed)
  IN  [k \in 1..Len(ends) |-> [args |-> ends[k].value, at |-> ends[k].at + delay]]

\* func has been invoked once for every burst that ended, with the arguments
\* of its last call, and for nothing else; the burst that ends at this very
\* moment has its invocation done or about to be done
OncePerBurst ==
  \/ invoked = InvocationsDue(clock)
  \/ /\ Due(timeoutId)
     /\ Len(InvocationsDue(clock)) = Len(invoked) + 1
     /\ invoked = SubSeq(InvocationsDue(clock), 1, Len(invoked))
     /\ InvocationsDue(clock)[Len(invoked) + 1] = [args |-> timeoutId.value, at |-> clock]

\* while the debounced term differs from searchTerm, the timer that will
\* bring it there is set for 300 ms after the last change
SettlesAfterDelay ==
  debouncedValue # searchTerm =>
    /\ debounceHandler.set
    /\ debounceHandler.value = searchTerm
    /\ debounceHandler.due = changedAt + delay
    /\ clock <= debounceHandler.due

\* the debounced term only ever takes the value that searchTerm has had for
\* the last 300 ms
TakesOnlySettledValue ==
  debouncedValue' # debouncedValue =>
    /\ debouncedValue' = searchTerm
    /\ searchTerm' = searchTerm
    /\ clock - changedAt >= delay

\* C25: the debounced search term takes a value only when searchTerm has been
\* equal to it for the preceding 300 ms, so that a value replaced within 300 ms
\* never reaches the filter; once searchTerm stops changing the debounced term
\* equals it 300 ms later; and debounce(func, delay) invokes func exactly once
\* per burst of calls less than delay apart, with the arguments of the last call.
C25_DebounceWaitsForQuiet ==
  /\ [](SettlesAfterDelay /\ OncePerBurst)
  /\ [][TakesOnlySettledValue]_vars

\* a burst of two different inputs less than 300 ms apart has been followed by
\* one invocation and by the debounced term taking the second value
C25_Witness ==
  /\ Len(typed) = 2
  /\ typed[1].value # typed[2].value
  /\ typed[1].value # ""
  /\ typed[2].at - typed[1].at \in 1..(delay - 1)
  /\ invoked = <<[args |-> typed[2].value, at |-> typed[2].at + delay]>>
  /\ debouncedValue = typed[2].value
  /\ searchTerm = typed[2].value

\* the inputs that changed searchTerm
Changes ==
  LET Changed(input) == input.value # (IF input.i = 1 THEN "" ELSE typed[input.i - 1].value)
  IN  SelectSeq(IndexedInputs, Changed)

\* the time of the first of the changes that have followed one another at
\* intervals shorter than limit up to the last one
RunStart ==
  LET changes == Changes
      Chained(k) == \A j \in k..(Len(changes) - 1) : changes[j + 1].at - changes[j].at < limit
      first == CHOOSE k \in 1..Len(changes) :
                 Chained(k) /\ \A j \in 1..(k - 1) : ~Chained(j)
  IN  changes[first].at

\* C26: while the value keeps changing at intervals shorter than limit, the
\* throttled value is updated at least once every limit ms: it is never more
\* than limit ms since both the start of the run of changes and the last
\* update of the throttled value.
C26_ThrottleKeepsUpdating ==
  (Changes # <<>> /\ clock - changedAt < limit) =>
    \/ clock - RunStart <= limit
    \/ clock - throttledAt <= limit

\* the throttled value only ever takes the value that has been there for
\* limit ms, as the debounced one does
ThrottleWaitsForQuiet ==
  [][throttledValue' # throttledValue =>
       throttledValue' = searchTerm /\ clock - changedAt >= limit]_vars

\* ------------------------------------------------ claims on the filters
\* the subscription is what the chosen status names: by its status, which is
\* 'Active' for a document without one, or by its cancellation flag
MatchesStatus(sub, choice) ==
  \/ choice = "Active"
  \/ choice = "Cancelled" /\ ToBoolean(sub.isAwaitingCancellation)

\* C27: with a status chosen in the filter panel (Active, Paused or Cancelled)
\* no subscription that does not match the choice is in filteredSubscriptions.
C27_StatusChoiceRestrictsList ==
  (call.fn = "useFilters" /\ result.done /\ call.filterStatus # "all") =>
    \A i \in 1..Len(result.value) : MatchesStatus(result.value[i], call.filterStatus)

\* every status the panel can send leaves the list as the category filter
\* alone makes it
StatusChoiceFiltersNothing ==
  (call.fn = "useFilters" /\ result.done) =>
    result.value = filteredSubscriptions(call.subs, "all", call.filterCategory)

\* the category filter does restrict the list
CategoryChoiceRestrictsList ==
  (call.fn = "useFilters" /\ result.done /\ call.filterCategory # "all") =>
    \A i \in 1..Len(result.value) : categoryOf(result.value[i]) = call.filterCategory

\* ----------------------------------------------- claims on the forecast
\* the months counted from year 0
MonthNumber(key) == 12 * key.year + key.month

\* C28: the 3 forecast entries are labelled with the 3 calendar months that
\* follow the last month of the trend, so that the months of the combined
\* series increase strictly and no forecast entry names a month that an
\* actual entry covers.
C28_ForecastMonthsFollowTrend ==
  enhancedShown =>
    LET trend == shownTrend
        combined == calculateForecast(trend, referenceDate)
    IN  /\ \A i \in 1..3 :
             MonthNumber(combined[Len(trend) + i].month)
               = MonthNumber(trend[Len(trend)].month) + i
        /\ \A k \in 1..(Len(combined) - 1) :
             MonthNumber(combined[k].month) < MonthNumber(combined[k + 1].month)

\* the forecast entries name months of the first half of the trend: the
\* months 1 to 3 after today, or 2 to 4 when today's day of the month does
\* not exist in the month named
ForecastMonthsAreTrendMonths ==
  enhancedShown =>
    LET trend == shownTrend
        combined == calculateForecast(trend, referenceDate)
    IN  /\ Len(trend) = 12
        /\ \A i \in 1..3 :
             /\ MonthNumber(combined[12 + i].month) >= MonthNumber(trend[1].month) + i
             /\ MonthNumber(combined[12 + i].month) <= MonthNumber(trend[1].month) + i + 1
             /\ \E k \in 2..5 : combined[12 + i].month = trend[k].month

\* ------------------------------------------- claims on the 12-month debt
\* a Monthly subscription whose nextRenewalDate is in
\* [referenceDate, referenceDate + 30 days)
DueWithinFirstPeriod(sub) ==
  LET anchor == ParseDate(sub.nextRenewalDate)
  IN  /\ sub.billingCycle = Monthly
      /\ anchor.valid
      /\ referenceDate.time <= anchor.time
      /\ anchor.time < AddDays(referenceDate, 30).time

\* C29: a Monthly subscription whose nextRenewalDate lies in
\* [referenceDate, referenceDate + 30 days) is counted for at most 12
\* occurrences, so that it adds at most 12 x cost to totalDebt12Months or to
\* cancellationDebt.
C29_MonthlyCountedAtMostTwelve ==
  \A i \in 1..Len(subscriptions) :
    LET sub == subscriptions[i]
    IN  DueWithinFirstPeriod(sub) =>
          /\ renewalsOf[sub][renderedAt] <= 12
          /\ totalDebt12Months(<<sub>>, referenceDate)
               + cancellationDebt(<<sub>>, referenceDate) <= 12 * Amount(sub.cost)

\* such a subscription is counted 12 or 13 times: 13 when the anchor is
\* within 5 days of the reference date (anchor + 12 x 30 days is then within
\* the 365 days), 12 otherwise
MonthlyCountedTwelveOrThirteen ==
  \A i \in 1..Len(subscriptions) :
    LET sub == subscriptions[i]
        anchor == ParseDate(sub.nextRenewalDate)
    IN  DueWithinFirstPeriod(sub) =>
          renewalsOf[sub][renderedAt]
            = IF anchor.time <= AddDays(referenceDate, 5).time THEN 13 ELSE 12

====
